---------------------------- MODULE Spec2Model ----------------------------
(***************************************************************************)
(* Model of the FormBot scraper service: the Display Session Pool         *)
(* (services/vnc_manager.py, VNCManager), the Task Execution Engine       *)
(* (services/task_executor.py, TaskExecutor) and the background-run API   *)
(* (api/execute.py, api/vnc.py).                                           *)
(*                                                                         *)
(* The service is one asyncio event loop: code between two awaits that     *)
(* suspend runs atomically, so every action below is the code from one     *)
(* suspension point to the next.                                           *)
(***************************************************************************)
EXTENDS Integers, Sequences, FiniteSets, TLC

\* ------------------------------------------------------------- bounds
\* VNCManager._MAX_SESSIONS, scaled down (20 in the source).
MAX_SESSIONS == 1
\* Number of background runs (execute_task requests) in the model.
NumRuns == 1
\* Largest number of form steps of a task.
MaxSteps == 2
\* Number of /vnc/start requests the API caller may make.
MaxApiStarts == 1

Runs == 1..NumRuns
\* Session ids stand for uuid4 values: each reserve takes a fresh one.
SIDs == 1..(NumRuns + MaxApiStarts)
\* None, for a session id (self._vnc_session_id = None).
NoSession == 0
\* None, for a websocket token ("vnc_token": None).
NoToken == << >>

Min(S) == CHOOSE x \in S : \A y \in S : x <= y

VARIABLES
  \* ---- VNCManager
  sessions,      \* self.sessions: session id -> session dict (the pool)
  resume_event,  \* the asyncio.Event of each session dict (lives on after a pop)
  xvfb,          \* state of the Xvfb process started for each session id
  tokenFile,     \* lines of _TOKEN_FILE: set of <<token, vnc_port>>
  websockify,    \* whether self._websockify_proc is running
  nextSid,       \* next fresh uuid
  minted,        \* tokens minted so far for each session id
  \* ---- /vnc/start caller (start_session)
  apiPc,         \* position of the start_session coroutine
  apiSid,        \* session_id local of its reserve_display call
  apiStarts,     \* /vnc/start requests made so far
  \* ---- background runs (_run_execution + TaskExecutor.execute)
  pc,            \* position of each run's coroutine
  req,           \* ExecuteRequest and the task's form definitions
  cancelReq,     \* task.cancel() called, CancelledError not yet delivered
  stepIdx,       \* i of "for i, form_def in enumerate(form_defs)" (1-based)
  resSid,        \* session_id local of the run's reserve_display call
  vncSid,        \* self._vnc_session_id
  steps_log,     \* steps_log list: references to step_info dicts (by step)
  stepStatus,    \* step_info["status"] of each step's dict
  db,            \* the persisted ExecutionLog row of each run
  results,       \* _execution_results entry of each run
  registered,    \* run_key in _running_executions
  \* ---- observations of the run (history)
  stops,         \* stop_session calls made by execute for the run
  clicks,        \* steps whose submit was clicked, in order
  started,       \* steps for which the loop body was entered
  waits,         \* results of the run's wait_for_resume calls, in order
  resumes,       \* resume_session calls that reached each session of a run
  closeRaised,   \* browser.close() raised in this run
  acts,          \* the executor's page and viewer actions, in order: <<action, step>>
  \* ---- _order_form_definitions and the step loop that follows its result
  form_defs,     \* raw_form_defs: the task's FormDefinition rows
  orders,        \* the results of the calls of _order_form_definitions so far
  loopPos,       \* number of steps the "for i, form_def in enumerate" loop has taken
  \* ---- callers of the VNCManager methods other than a task run
  callPc,        \* position of each caller inside reserve_display
  callSid,       \* session_id local of each caller's reserve_display call
  issued,        \* session ids that reserve_display has returned to a caller
  waiter,        \* the caller of wait_for_resume: position, session, result
  ret,           \* the last call made on the VNCManager and what it returned
  freed,         \* slot freed by a stop on a full pool, until the next reserve call
  \* ---- editing sessions (highlighter_registry.py, api/analyze.py, api/editing.py)
  hreg,          \* HighlighterRegistry._sessions[task_id]: the registered session object
  edit,          \* each HighlighterSession object: its fields and its browser
  dom,           \* the overlay mode, a field's value and the URL of each session's page
  anaPc,         \* position of the analyze_url_interactive._run that builds each session
  anaSid,        \* vnc_session_id local of that _run
  navPc,         \* position of the navigate_step request on each session
  loginPc,       \* position of the execute_login._run task of each session
  loginReq,      \* the ExecuteLoginRequest of that task
  loginDone,     \* the LoginExecutionComplete event of that task
  submits,       \* whether that task attempted a submit action
  fillFail,      \* the gravest fill failure of that task's field loop
  earlyResume,   \* resume_login served since that task started and before its pause
  reply,         \* the last reply of the editing API
  \* ---- the field loop of one step of execute
  step_fields,   \* the step's FormField rows in sort_order
  fieldPos,      \* rows the loop has passed
  step_info,     \* keys of the step_info dict
  attempts,      \* rows the loop tried to fill, in order, with the outcome
  fillPc,        \* position of the step
  fillBreak,     \* form_def.human_breakpoint
  \* ---- the submit phase of one execute_login._run
  sub_req,       \* request.submit_selector and submit_field_selector are set; the DOM marker was captured
  subPc,         \* position of the task inside the phase
  subTrace,      \* the submit attempts and effect checks made, in order
  submit_method, \* the local submit_method
  navigation_detected,  \* the local navigation_detected
  \* ---- the events a run published (Broadcaster.trigger_execution)
  events,        \* the started, step and terminal events of each run, in order
  \* ---- TaskEditingRegistry and the setup tasks of analyze_url_interactive
  _tasks,        \* self._tasks: task id -> the asyncio.Task registered for it
  bgTask,        \* each asyncio.Task created for a setup: its task id and its state
  regRet         \* the last call made on the registry and what it returned

poolVars == <<sessions, resume_event, xvfb, tokenFile, websockify, nextSid, minted>>
apiVars  == <<apiPc, apiSid, apiStarts>>
runVars  == <<pc, req, cancelReq, stepIdx, resSid, vncSid, steps_log, stepStatus,
              db, results, registered>>
histVars == <<stops, clicks, started, waits, resumes, closeRaised, acts>>
ordVars  == <<form_defs, orders, loopPos>>
clientVars == <<callPc, callSid, issued, waiter, ret, freed>>
editVars == <<hreg, edit, dom, anaPc, anaSid, navPc, loginPc, loginReq, loginDone,
              submits, fillFail, earlyResume, reply>>
fillVars == <<step_fields, fieldPos, step_info, attempts, fillPc, fillBreak>>
subVars == <<sub_req, subPc, subTrace, submit_method, navigation_detected>>
regVars == <<_tasks, bgTask, regRet>>
extraVars == <<editVars, fillVars, subVars, events, regVars>>
sideVars == <<ordVars, clientVars, extraVars>>
\* What a step of a run that publishes an event leaves alone.
quietVars == <<ordVars, clientVars, editVars, fillVars, subVars, regVars>>
vars == <<poolVars, apiVars, runVars, histVars, sideVars>>

\* ------------------------------------------------------- VNCManager
\* _find_free_slot: the free slots of pool S (empty: RuntimeError "No free VNC slots").
FreeSlots(S) == {k \in 0..(MAX_SESSIONS - 1) : k \notin {S[s].slot : s \in DOMAIN S}}

_find_free_slot(S) == Min(FreeSlots(S))

\* _vnc_port_for_slot, as an offset from _BASE_VNC_PORT.
_vnc_port_for_slot(slot) == slot

\* The session dict reserve_display stores.
NewSession(owner, slot) ==
  [execution_id |-> owner, slot |-> slot, vnc_port |-> _vnc_port_for_slot(slot),
   status |-> "reserved", x11vnc_proc |-> FALSE, vnc_token |-> NoToken]

\* S with key sid set to v (dict assignment) / removed (dict.pop).
Put(S, sid, v) == [s \in DOMAIN S \cup {sid} |-> IF s = sid THEN v ELSE S[s]]
Pop(S, sid) == [s \in DOMAIN S \ {sid} |-> S[s]]

\* _remove_token: drop the lines that start with "token:".
_remove_token(F, token) == {l \in F : l[1] # token}

\* _start_xvfb: _kill_existing_xvfb kills the Xvfb that holds the display's
\* lock file, then a new process is started for sid on that display; ok:
\* whether the new process comes up (poll() is None one second later).
_start_xvfb(X, sid, slot, ok) ==
  [s \in SIDs |->
     IF s = sid THEN [st |-> IF ok THEN "alive" ELSE "dead", slot |-> slot]
     ELSE IF X[s].st = "alive" /\ X[s].slot = slot THEN [X[s] EXCEPT !.st = "dead"]
     ELSE X[s]]

\* _kill_proc on the Xvfb process of sid.
_kill_proc(X, sid) == [X EXCEPT ![sid].st = IF @ = "alive" THEN "dead" ELSE @]

\* reserve_display, lines 181-199: under the lock, take the first free slot,
\* start Xvfb and store the session. Enabled when a slot is free.
ReserveInsert(owner, sid, ok) ==
  LET slot == _find_free_slot(sessions) IN
  /\ xvfb' = _start_xvfb(xvfb, sid, slot, ok)
  /\ sessions' = Put(sessions, sid, NewSession(owner, slot))
  /\ resume_event' = [resume_event EXCEPT ![sid] = FALSE]
  /\ nextSid' = nextSid + 1
  /\ UNCHANGED <<tokenFile, websockify, minted>>

\* A reserve_display that leaves the session of a failed start in the pool.
ReserveKeepsEntry(sid) == UNCHANGED poolVars

\* reserve_display, lines 204-209: Xvfb did not come up; forget the session.
ReservePop(sid) ==
  /\ sessions' = Pop(sessions, sid)
  /\ UNCHANGED <<resume_event, xvfb, tokenFile, websockify, nextSid, minted>>

\* reserve_display, line 210: the one retry of _start_xvfb on the same display.
ReserveRestart(sid, ok) ==
  /\ xvfb' = _start_xvfb(xvfb, sid, xvfb[sid].slot, ok)
  /\ UNCHANGED <<sessions, resume_event, tokenFile, websockify, nextSid, minted>>

\* reserve_display, lines 216-226: the retry came up; store the session again
\* with the slot chosen at the first attempt (no lock, no new slot search).
ReserveReinsert(owner, sid) ==
  /\ sessions' = Put(sessions, sid, NewSession(owner, xvfb[sid].slot))
  /\ resume_event' = [resume_event EXCEPT ![sid] = FALSE]
  /\ UNCHANGED <<xvfb, tokenFile, websockify, nextSid, minted>>

\* secrets.token_urlsafe(32): a value no earlier call returned, here the pair
\* of the session and the number of tokens minted for it before.
FreshToken(sid) == <<sid, minted[sid]>>

\* activate_vnc on a session of the pool, up to its sleep: _ensure_websockify
\* (a start resets the token file), start x11vnc, mint and register a token.
activate_vnc(sid) ==
  LET file == IF websockify THEN tokenFile ELSE {}
      token == FreshToken(sid)
  IN
  /\ sessions' = [sessions EXCEPT ![sid].x11vnc_proc = TRUE,
                                  ![sid].vnc_token = token,
                                  ![sid].status = "active"]
  /\ tokenFile' = file \cup {<<token, sessions[sid].vnc_port>>}
  /\ websockify' = TRUE
  /\ minted' = [minted EXCEPT ![sid] = @ + 1]
  /\ UNCHANGED <<resume_event, xvfb, nextSid>>

\* A deactivate_vnc that tears the whole session down, virtual display
\* included.
DeactivateKillsDisplay(sid) ==
  IF sid \notin DOMAIN sessions THEN UNCHANGED poolVars
  ELSE
    /\ tokenFile' = IF sessions[sid].vnc_token # NoToken
                    THEN _remove_token(tokenFile, sessions[sid].vnc_token)
                    ELSE tokenFile
    /\ sessions' = [sessions EXCEPT ![sid].vnc_token = NoToken,
                                    ![sid].x11vnc_proc = FALSE,
                                    ![sid].status = "reserved"]
    /\ xvfb' = _kill_proc(xvfb, sid)
    /\ UNCHANGED <<resume_event, websockify, nextSid, minted>>

\* deactivate_vnc: revoke the token, kill x11vnc, keep Xvfb; nothing for an
\* unknown session.
deactivate_vnc(sid) ==
  IF sid \notin DOMAIN sessions THEN UNCHANGED poolVars
  ELSE
    /\ tokenFile' = IF sessions[sid].vnc_token # NoToken
                    THEN _remove_token(tokenFile, sessions[sid].vnc_token)
                    ELSE tokenFile
    /\ sessions' = [sessions EXCEPT ![sid].vnc_token = NoToken,
                                    ![sid].x11vnc_proc = FALSE,
                                    ![sid].status = "reserved"]
    /\ UNCHANGED <<resume_event, xvfb, websockify, nextSid, minted>>

\* A stop_session that does not fire the session's resume event.
StopNoSignal(sid) ==
  IF sid \notin DOMAIN sessions THEN UNCHANGED poolVars
  ELSE
    /\ sessions' = Pop(sessions, sid)
    /\ tokenFile' = IF sessions[sid].vnc_token # NoToken
                    THEN _remove_token(tokenFile, sessions[sid].vnc_token)
                    ELSE tokenFile
    /\ xvfb' = _kill_proc(xvfb, sid)
    /\ UNCHANGED <<resume_event, websockify, nextSid, minted>>

\* stop_session: pop the session, fire its resume event, revoke the token,
\* kill x11vnc and Xvfb; nothing ("not_found") for an unknown session.
stop_session(sid) ==
  IF sid \notin DOMAIN sessions THEN UNCHANGED poolVars
  ELSE
    /\ sessions' = Pop(sessions, sid)
    /\ resume_event' = [resume_event EXCEPT ![sid] = TRUE]
    /\ tokenFile' = IF sessions[sid].vnc_token # NoToken
                    THEN _remove_token(tokenFile, sessions[sid].vnc_token)
                    ELSE tokenFile
    /\ xvfb' = _kill_proc(xvfb, sid)
    /\ UNCHANGED <<websockify, nextSid, minted>>

\* cleanup: every session popped, its event fired and its processes killed;
\* websockify stopped and the token file removed.
cleanup ==
  /\ sessions' = << >>
  /\ resume_event' = [s \in SIDs |-> IF s \in DOMAIN sessions THEN TRUE ELSE resume_event[s]]
  /\ xvfb' = [s \in SIDs |-> IF s \in DOMAIN sessions THEN _kill_proc(xvfb, s)[s] ELSE xvfb[s]]
  /\ tokenFile' = {}
  /\ websockify' = FALSE
  /\ UNCHANGED <<nextSid, minted>>

\* ------------------------------------------------ ExecutionLog, results
\* The row as JSON-serialised at a commit: one record per list entry, each
\* with the status its step_info dict has at that moment.
Snapshot(log, status) == [k \in 1..Len(log) |-> [step |-> log[k], status |-> status[log[k]]]]

NoRow == [status |-> "none", error |-> "none", vnc_session_id |-> NoSession,
          steps_log |-> << >>, screenshot |-> FALSE]

NoResult == [status |-> "none", error |-> "none"]

Steps(r) == 1..Len(req[r].breakpoint)

\* needs_vnc = any(fd.human_breakpoint for fd in form_defs)
needs_vnc(r) == \E k \in Steps(r) : req[r].breakpoint[k]

\* Positions at which the coroutine is suspended inside reserve_display,
\* which execute calls before its try block.
ReservePcs == {"reserve_wait", "reserve_retry_sleep", "reserve_retry_wait"}
\* Positions inside execute's try block.
TryPcs == {"launch", "step", "activate_sleep", "pause_wait", "pause_unknown",
           "timeout_close", "submit", "final", "dry_close"}
\* Positions at which the background task is finished.
DonePcs == {"done", "cancelled"}

\* ------------------------------------------- events
\* TaskExecutor._broadcast(event, data): the event, the step it is about
\* (0: the run) and the status it carries.
Ev(name, step, status) == [ev |-> name, step |-> step, status |-> status]
EvStarted == Ev("started", 0, "running")
EvFailed == Ev("failed", 0, "failed")
EvCompleted(status) == Ev("completed", 0, status)

\* The run publishes the events evs, in order.
Publish(r, evs) == events' = [events EXCEPT ![r] = @ \o evs]

\* ------------------------------------------- leaving execute
\* The finally block of execute (lines 494-501) without its stop: a cleanup
\* that only forgets the session id.
FinallyNoStop(r) ==
  /\ vncSid' = [vncSid EXCEPT ![r] = NoSession]
  /\ UNCHANGED <<poolVars, stops>>

\* The finally block of execute (lines 494-501).
Finally(r) ==
  /\ IF vncSid[r] # NoSession
     THEN stop_session(vncSid[r]) /\ stops' = [stops EXCEPT ![r] = @ + 1]
     ELSE UNCHANGED <<poolVars, stops>>
  /\ vncSid' = [vncSid EXCEPT ![r] = NoSession]

\* _run_execution after execute returned `res` (lines 46-50) and its finally.
RunReturn(r, res) ==
  /\ results' = [results EXCEPT ![r] = res]
  /\ registered' = [registered EXCEPT ![r] = FALSE]
  /\ pc' = [pc EXCEPT ![r] = "done"]

\* _run_execution's "except Exception" (lines 76-81) and its finally: an
\* exception that escaped execute. The row is not touched.
RunExcept(r, msg) ==
  /\ results' = [results EXCEPT ![r] = [status |-> "failed", error |-> msg]]
  /\ registered' = [registered EXCEPT ![r] = FALSE]
  /\ pc' = [pc EXCEPT ![r] = "done"]

\* An "except Exception" of execute that persists the log as it was before
\* the failing step touched it.
HandlerKeepsOldLog(r, msg, log, status) ==
  /\ db' = [db EXCEPT ![r].status = "failed", ![r].error = msg,
                      ![r].steps_log = Snapshot(steps_log[r], stepStatus[r])]
  /\ Finally(r)
  /\ RunReturn(r, [status |-> "failed", error |-> msg])

\* execute's "except Exception" (lines 475-493) on an exception raised inside
\* the try block, with the in-memory log as it is then; then the finally
\* block and the return to _run_execution.
Handler(r, msg, log, status) ==
  /\ db' = [db EXCEPT ![r].status = "failed", ![r].error = msg,
                      ![r].steps_log = Snapshot(log, status)]
  /\ Finally(r)
  /\ RunReturn(r, [status |-> "failed", error |-> msg])

\* _run_execution's "except asyncio.CancelledError" (lines 51-75) and finally.
CancelHandler(r) ==
  /\ results' = [results EXCEPT ![r] = [status |-> "failed", error |-> "aborted"]]
  /\ db' = IF req[r].has_execution_id
           THEN [db EXCEPT ![r].status = "failed", ![r].error = "aborted",
                           ![r].vnc_session_id = NoSession]
           ELSE db
  /\ registered' = [registered EXCEPT ![r] = FALSE]
  /\ pc' = [pc EXCEPT ![r] = "cancelled"]

\* ---- TaskEditingRegistry
\* Number of task ids and of setup requests (asyncio.Task objects) in the model.
MaxTaskIds == 2
MaxSetups == 3
TaskIds == 1..MaxTaskIds
Handles == 1..MaxSetups
\* None, for a registry entry (self._tasks.get(task_id)).
NoTask == 0
NoRegCall == [op |-> "none", id |-> 0, result |-> FALSE]

\* The registry is empty and no setup task was created.
RegIdle ==
  /\ _tasks = [id \in TaskIds |-> NoTask]
  /\ bgTask = [t \in Handles |-> [id |-> 0, st |-> "none"]]
  /\ regRet = NoRegCall

\* ---------------------------------------------------------------- Init
Requests ==
  [has_execution_id : BOOLEAN, is_dry_run : BOOLEAN,
   breakpoint : UNION {[1..n -> BOOLEAN] : n \in 1..MaxSteps}]

NoRequest == [has_execution_id |-> FALSE, is_dry_run |-> FALSE, breakpoint |-> << >>]

\* The callers of reserve_display other than a task run (the analysis
\* endpoints and services), as many as there are session ids for them.
Callers == 1..(NumRuns + MaxApiStarts)
\* No caller is inside wait_for_resume.
NoWaiter == [pc |-> "idle", sid |-> NoSession, result |-> FALSE]
\* No call has been made on the VNCManager yet.
NoCall == [op |-> "none", sid |-> NoSession, result |-> "none"]
\* No slot was freed since the last reserve call.
NoSlot == 0 - 1

\* ---- editing sessions
\* Largest number of editing sessions built for the task id.
MaxEditSessions == 1
EditObjs == 1..MaxEditSessions
\* No session object (registry.get returns None).
NoObj == 0
\* request.task_id, which analyze_url_interactive passes to reserve_display.
EditOwner == NumRuns + 1

\* HighlighterSession as its dataclass defaults leave it, before the browser
\* of the session exists.
NewEdit == [vnc_session_id |-> NoSession, executing |-> FALSE, navigating |-> FALSE,
            resume_event |-> FALSE, fields |-> "initial", browser |-> "none"]
\* The page after the analysis loaded it and injected the overlay.
NewDom == [mode |-> "select", value |-> "", url |-> "start"]
NoLogin == [human_breakpoint |-> FALSE]
NoReply == [op |-> "none", code |-> 0]

\* No editing session was ever started.
EditIdle ==
  /\ hreg = NoObj
  /\ edit = [o \in EditObjs |-> NewEdit]
  /\ dom = [o \in EditObjs |-> NewDom]
  /\ anaPc = [o \in EditObjs |-> "idle"]
  /\ anaSid = [o \in EditObjs |-> NoSession]
  /\ navPc = [o \in EditObjs |-> [pc |-> "idle", url |-> "none"]]
  /\ loginPc = [o \in EditObjs |-> "idle"]
  /\ loginReq = [o \in EditObjs |-> NoLogin]
  /\ loginDone = [o \in EditObjs |-> "none"]
  /\ submits = [o \in EditObjs |-> FALSE]
  /\ fillFail = [o \in EditObjs |-> "none"]
  /\ earlyResume = [o \in EditObjs |-> FALSE]
  /\ reply = NoReply

\* No step is inside its field loop.
FillIdle ==
  /\ step_fields = << >>
  /\ fieldPos = 0
  /\ step_info = {}
  /\ attempts = << >>
  /\ fillPc = "idle"
  /\ fillBreak = FALSE

\* No login task is inside its submit phase.
SubIdle ==
  /\ sub_req = [submit_selector |-> FALSE, submit_field_selector |-> FALSE, marker |-> FALSE]
  /\ subPc = "idle"
  /\ subTrace = << >>
  /\ submit_method = "none"
  /\ navigation_detected = FALSE

\* The service after start-up: an empty pool, no request made yet.
ServiceInit ==
  /\ sessions = << >>
  /\ resume_event = [s \in SIDs |-> FALSE]
  /\ xvfb = [s \in SIDs |-> [st |-> "none", slot |-> 0]]
  /\ tokenFile = {}
  /\ websockify = FALSE
  /\ nextSid = 1
  /\ minted = [s \in SIDs |-> 0]
  /\ apiPc = "idle"
  /\ apiSid = NoSession
  /\ apiStarts = 0
  /\ pc = [r \in Runs |-> "idle"]
  /\ req = [r \in Runs |-> NoRequest]
  /\ cancelReq = [r \in Runs |-> FALSE]
  /\ stepIdx = [r \in Runs |-> 0]
  /\ resSid = [r \in Runs |-> NoSession]
  /\ vncSid = [r \in Runs |-> NoSession]
  /\ steps_log = [r \in Runs |-> << >>]
  /\ stepStatus = [r \in Runs |-> [k \in 1..MaxSteps |-> "none"]]
  /\ db = [r \in Runs |-> NoRow]
  /\ results = [r \in Runs |-> NoResult]
  /\ registered = [r \in Runs |-> FALSE]
  /\ stops = [r \in Runs |-> 0]
  /\ clicks = [r \in Runs |-> << >>]
  /\ started = [r \in Runs |-> << >>]
  /\ waits = [r \in Runs |-> << >>]
  /\ resumes = [s \in SIDs |-> 0]
  /\ closeRaised = [r \in Runs |-> FALSE]
  /\ acts = [r \in Runs |-> << >>]
  /\ callPc = [c \in Callers |-> "idle"]
  /\ callSid = [c \in Callers |-> NoSession]
  /\ issued = {}
  /\ waiter = NoWaiter
  /\ ret = NoCall
  /\ freed = NoSlot
  /\ events = [r \in Runs |-> << >>]
  /\ RegIdle
  /\ EditIdle

\* The run model takes the task's steps in resolved order as given
\* (req.breakpoint), so the resolver's own state stays idle in it.
Init ==
  /\ ServiceInit
  /\ FillIdle
  /\ SubIdle
  /\ form_defs = {}
  /\ orders = << >>
  /\ loopPos = 0

\* ------------------------------------------------- api/execute.py
\* execute_task: no task is running under the run key; create the background
\* task. A pre-supplied execution_id names a row the backend created "pending".
execute_task(r) ==
  /\ pc[r] = "idle"
  /\ \E q \in Requests :
       /\ req' = [req EXCEPT ![r] = q]
       /\ db' = [db EXCEPT ![r].status = IF q.has_execution_id THEN "pending" ELSE "none"]
  /\ registered' = [registered EXCEPT ![r] = TRUE]
  /\ pc' = [pc EXCEPT ![r] = "created"]
  /\ UNCHANGED <<sideVars, poolVars, apiVars, cancelReq, stepIdx, resSid, vncSid, steps_log,
                 stepStatus, results, histVars>>

\* cancel_execution: task.cancel() on a registered task that is not done.
cancel_execution(r) ==
  /\ registered[r]
  /\ pc[r] \notin DonePcs
  /\ ~cancelReq[r]
  /\ cancelReq' = [cancelReq EXCEPT ![r] = TRUE]
  /\ UNCHANGED <<sideVars, poolVars, apiVars, pc, req, stepIdx, resSid, vncSid, steps_log,
                 stepStatus, db, results, registered, histVars>>

\* The event loop throws CancelledError into the coroutine at the await it is
\* suspended on. A task that never started ends without running any code;
\* inside reserve_display nothing catches it before _run_execution; inside
\* execute's try block the finally block runs first.
CancelDeliver(r) ==
  /\ cancelReq[r]
  /\ cancelReq' = [cancelReq EXCEPT ![r] = FALSE]
  /\ \/ /\ pc[r] = "created"
        /\ pc' = [pc EXCEPT ![r] = "cancelled"]
        /\ UNCHANGED <<poolVars, vncSid, stops, db, results, registered>>
     \/ /\ pc[r] \in ReservePcs
        /\ CancelHandler(r)
        /\ UNCHANGED <<poolVars, vncSid, stops>>
     \/ /\ pc[r] \in TryPcs
        /\ Finally(r)
        /\ CancelHandler(r)
  /\ UNCHANGED <<sideVars, acts, apiVars, req, stepIdx, resSid, steps_log, stepStatus,
                 clicks, started, waits, resumes, closeRaised>>

\* ------------------------------------- TaskExecutor.execute, before the try
\* Lines 171-227 up to the first await that suspends: the row is set (or
\* created) "running", the steps are loaded, and with a human breakpoint in
\* the task reserve_display is entered: no free slot raises out of execute,
\* otherwise the session is stored and the coroutine sleeps.
RunStart(r) ==
  /\ pc[r] = "created"
  /\ ~cancelReq[r]
  /\ db' = [db EXCEPT ![r].status = "running", ![r].steps_log = << >>]
  /\ Publish(r, <<EvStarted>>)
  /\ IF ~needs_vnc(r)
     THEN /\ pc' = [pc EXCEPT ![r] = "launch"]
          /\ UNCHANGED <<poolVars, resSid, results, registered>>
     ELSE IF FreeSlots(sessions) = {}
     THEN /\ RunExcept(r, "no_free_slot")
          /\ UNCHANGED <<poolVars, resSid>>
     ELSE /\ nextSid \in SIDs
          /\ \E ok \in BOOLEAN : ReserveInsert(r, nextSid, ok)
          /\ resSid' = [resSid EXCEPT ![r] = nextSid]
          /\ pc' = [pc EXCEPT ![r] = "reserve_wait"]
          /\ UNCHANGED <<results, registered>>
  /\ UNCHANGED <<quietVars, apiVars, req, cancelReq, stepIdx, vncSid, steps_log, stepStatus, histVars>>

\* reserve_display lines 201-209 and, when Xvfb is up, its return into
\* execute (lines 226-229).
ReserveCheck(r) ==
  /\ pc[r] = "reserve_wait"
  /\ ~cancelReq[r]
  /\ IF xvfb[resSid[r]].st = "alive"
     THEN /\ vncSid' = [vncSid EXCEPT ![r] = resSid[r]]
          /\ pc' = [pc EXCEPT ![r] = "launch"]
          /\ UNCHANGED poolVars
     ELSE /\ ReservePop(resSid[r])
          /\ pc' = [pc EXCEPT ![r] = "reserve_retry_sleep"]
          /\ UNCHANGED vncSid
  /\ UNCHANGED <<sideVars, apiVars, req, cancelReq, stepIdx, resSid, steps_log, stepStatus,
                 db, results, registered, histVars>>

\* reserve_display lines 210-211.
ReserveRetryStart(r) ==
  /\ pc[r] = "reserve_retry_sleep"
  /\ ~cancelReq[r]
  /\ \E ok \in BOOLEAN : ReserveRestart(resSid[r], ok)
  /\ pc' = [pc EXCEPT ![r] = "reserve_retry_wait"]
  /\ UNCHANGED <<sideVars, apiVars, req, cancelReq, stepIdx, resSid, vncSid, steps_log, stepStatus,
                 db, results, registered, histVars>>

\* reserve_display lines 212-231: the second failure raises out of execute,
\* otherwise the session is stored again and execute goes on.
ReserveRetryCheck(r) ==
  /\ pc[r] = "reserve_retry_wait"
  /\ ~cancelReq[r]
  /\ IF xvfb[resSid[r]].st = "alive"
     THEN /\ ReserveReinsert(r, resSid[r])
          /\ vncSid' = [vncSid EXCEPT ![r] = resSid[r]]
          /\ pc' = [pc EXCEPT ![r] = "launch"]
          /\ UNCHANGED <<results, registered>>
     ELSE /\ RunExcept(r, "xvfb_failed")
          /\ UNCHANGED <<poolVars, vncSid>>
  /\ UNCHANGED <<sideVars, apiVars, req, cancelReq, stepIdx, resSid, steps_log, stepStatus,
                 db, histVars>>

\* ------------------------------------- TaskExecutor.execute, the try block
IsLast(r) == stepIdx[r] = Len(req[r].breakpoint)

\* Lines 230-252: launch the browser, open context and page.
Launch(r) ==
  /\ pc[r] = "launch"
  /\ ~cancelReq[r]
  /\ \E ok \in BOOLEAN :
       IF ok
       THEN /\ stepIdx' = [stepIdx EXCEPT ![r] = 1]
            /\ pc' = [pc EXCEPT ![r] = "step"]
            /\ UNCHANGED <<poolVars, vncSid, db, results, registered, stops, events>>
       ELSE /\ Handler(r, "exception", steps_log[r], stepStatus[r])
            /\ Publish(r, <<EvFailed>>)
            /\ UNCHANGED stepIdx
  /\ UNCHANGED <<quietVars, acts, apiVars, req, cancelReq, resSid, steps_log, stepStatus,
                 clicks, started, waits, resumes, closeRaised>>

\* Lines 254-353 and _vnc_pause line 101, for step stepIdx: a new step_info,
\* navigation (may raise), the wait for the form selector (not found: the
\* form_not_found entry is appended and the run aborted), the field fills
\* (their failures are swallowed), and for a human breakpoint activate_vnc
\* (ValueError for a session that is not in the pool) up to its sleep.
Step(r) ==
  LET i == stepIdx[r]
      st0 == [stepStatus[r] EXCEPT ![i] = "started"]
      stNF == [stepStatus[r] EXCEPT ![i] = "form_not_found"]
  IN
  /\ pc[r] = "step"
  /\ ~cancelReq[r]
  /\ started' = [started EXCEPT ![r] = Append(@, i)]
  /\ \E out \in {"ok", "goto_raised", "form_not_found"} :
       CASE out = "goto_raised" ->
              /\ Handler(r, "exception", steps_log[r], st0)
              /\ Publish(r, <<Ev("step_started", i, "running"), EvFailed>>)
              /\ stepStatus' = [stepStatus EXCEPT ![r] = st0]
              /\ UNCHANGED <<steps_log, acts>>
         [] out = "form_not_found" ->
              /\ Handler(r, "form_not_found", Append(steps_log[r], i), stNF)
              /\ Publish(r, <<Ev("step_started", i, "running"), EvFailed>>)
              /\ stepStatus' = [stepStatus EXCEPT ![r] = stNF]
              /\ steps_log' = [steps_log EXCEPT ![r] = Append(@, i)]
              /\ UNCHANGED acts
         [] out = "ok" /\ ~req[r].breakpoint[i] ->
              /\ Publish(r, <<Ev("step_started", i, "running")>>)
              /\ stepStatus' = [stepStatus EXCEPT ![r] = st0]
              /\ acts' = [acts EXCEPT ![r] = Append(@, <<"fill", i>>)]
              /\ pc' = [pc EXCEPT ![r] = "submit"]
              /\ UNCHANGED <<poolVars, vncSid, steps_log, db, results, registered, stops>>
         [] out = "ok" /\ req[r].breakpoint[i] /\ vncSid[r] \notin DOMAIN sessions ->
              /\ Handler(r, "exception", steps_log[r], st0)
              /\ Publish(r, <<Ev("step_started", i, "running"), EvFailed>>)
              /\ stepStatus' = [stepStatus EXCEPT ![r] = st0]
              /\ acts' = [acts EXCEPT ![r] = Append(@, <<"fill", i>>)]
              /\ UNCHANGED steps_log
         [] out = "ok" /\ req[r].breakpoint[i] /\ vncSid[r] \in DOMAIN sessions ->
              /\ activate_vnc(vncSid[r])
              /\ Publish(r, <<Ev("step_started", i, "running")>>)
              /\ stepStatus' = [stepStatus EXCEPT ![r] = st0]
              /\ acts' = [acts EXCEPT ![r] = @ \o << <<"fill", i>>, <<"activate", i>> >>]
              /\ pc' = [pc EXCEPT ![r] = "activate_sleep"]
              /\ UNCHANGED <<vncSid, steps_log, db, results, registered, stops>>
  /\ UNCHANGED <<quietVars, apiVars, req, cancelReq, stepIdx, resSid, clicks, waits, resumes, closeRaised>>

\* activate_vnc lines 261-273 and _vnc_pause lines 103-128: the row becomes
\* waiting_manual, the step_info is appended to the log and persisted, and
\* wait_for_resume is entered: it blocks on the session's event, or finds no
\* session and is about to return False.
PauseBegin(r) ==
  LET i == stepIdx[r]
      st == [stepStatus[r] EXCEPT ![i] = "waiting_manual"]
      log == Append(steps_log[r], i)
  IN
  /\ pc[r] = "activate_sleep"
  /\ ~cancelReq[r]
  /\ stepStatus' = [stepStatus EXCEPT ![r] = st]
  /\ steps_log' = [steps_log EXCEPT ![r] = log]
  /\ db' = [db EXCEPT ![r].status = "waiting_manual",
                      ![r].vnc_session_id = vncSid[r],
                      ![r].steps_log = Snapshot(log, st)]
  /\ pc' = [pc EXCEPT ![r] = IF vncSid[r] \in DOMAIN sessions
                             THEN "pause_wait" ELSE "pause_unknown"]
  /\ acts' = [acts EXCEPT ![r] = Append(@, <<"wait", i>>)]
  /\ UNCHANGED <<sideVars, poolVars, apiVars, req, cancelReq, stepIdx, resSid, vncSid,
                 results, registered, stops, clicks, started, waits, resumes, closeRaised>>

\* _vnc_pause after a resume without its deactivate_vnc call: the viewer is
\* left running while the run goes on to the submit.
PauseResumedKeepViewer(r) ==
  /\ pc[r] = "pause_wait"
  /\ ~cancelReq[r]
  /\ resume_event[vncSid[r]]
  /\ waits' = [waits EXCEPT ![r] = Append(@, TRUE)]
  /\ stepStatus' = [stepStatus EXCEPT ![r][stepIdx[r]] = "breakpoint_resolved"]
  /\ db' = [db EXCEPT ![r].status = "running"]
  /\ pc' = [pc EXCEPT ![r] = "submit"]
  /\ UNCHANGED <<sideVars, poolVars, acts, apiVars, req, cancelReq, stepIdx, resSid, vncSid,
                 steps_log, results, registered, stops, clicks, started, resumes,
                 closeRaised>>

\* wait_for_resume returns True (the event is set) and _vnc_pause lines
\* 146-163: deactivate_vnc, the step_info becomes breakpoint_resolved, the row
\* running; the log entry is the same dict, so nothing is appended.
PauseResumed(r) ==
  /\ pc[r] = "pause_wait"
  /\ ~cancelReq[r]
  /\ resume_event[vncSid[r]]
  /\ waits' = [waits EXCEPT ![r] = Append(@, TRUE)]
  /\ deactivate_vnc(vncSid[r])
  /\ acts' = [acts EXCEPT ![r] = Append(@, <<"deactivate", stepIdx[r]>>)]
  /\ stepStatus' = [stepStatus EXCEPT ![r][stepIdx[r]] = "breakpoint_resolved"]
  /\ db' = [db EXCEPT ![r].status = "running"]
  /\ pc' = [pc EXCEPT ![r] = "submit"]
  /\ UNCHANGED <<sideVars, apiVars, req, cancelReq, stepIdx, resSid, vncSid, steps_log,
                 results, registered, stops, clicks, started, resumes, closeRaised>>

\* wait_for_resume returns False (asyncio.TimeoutError, or no session) and
\* _vnc_pause lines 130-143: the row becomes failed with the timeout message
\* and the browser is being closed.
PauseTimeout(r) ==
  /\ \/ pc[r] = "pause_wait" /\ ~resume_event[vncSid[r]]
     \/ pc[r] = "pause_unknown"
  /\ ~cancelReq[r]
  /\ waits' = [waits EXCEPT ![r] = Append(@, FALSE)]
  /\ db' = [db EXCEPT ![r].status = "failed", ![r].error = "vnc_timeout",
                      ![r].steps_log = Snapshot(steps_log[r], stepStatus[r])]
  /\ Publish(r, <<EvFailed>>)
  /\ pc' = [pc EXCEPT ![r] = "timeout_close"]
  /\ UNCHANGED <<quietVars, acts, poolVars, apiVars, req, cancelReq, stepIdx, resSid, vncSid, steps_log,
                 stepStatus, results, registered, stops, clicks, started, resumes,
                 closeRaised>>

\* _vnc_pause lines 143-144 and execute lines 354-359: browser.close() returns
\* and execute returns the failed result, or browser.close() raises inside
\* the try block.
TimeoutClose(r) ==
  /\ pc[r] = "timeout_close"
  /\ ~cancelReq[r]
  /\ \E ok \in BOOLEAN :
       IF ok
       THEN /\ Finally(r)
            /\ RunReturn(r, [status |-> "failed", error |-> "vnc_timeout"])
            /\ UNCHANGED <<db, closeRaised, events>>
       ELSE /\ Handler(r, "exception", steps_log[r], stepStatus[r])
            /\ Publish(r, <<EvFailed>>)
            /\ closeRaised' = [closeRaised EXCEPT ![r] = TRUE]
  /\ UNCHANGED <<quietVars, acts, apiVars, req, cancelReq, stepIdx, resSid, steps_log, stepStatus,
                 clicks, started, waits, resumes>>

\* A dry run that treats no step as its last: "is_dry_run and is_last_step"
\* never holds.
DryRunLastNever(r) == FALSE

\* Lines 362-364: is_dry_run and is_last_step.
DryRunLast(r) == req[r].is_dry_run /\ IsLast(r)

\* An append after the submit that does not look at the log's last entry.
AppendAlways(log, i) == Append(log, i)

\* "if not steps_log or steps_log[-1] is not step_info: steps_log.append(step_info)"
AppendIfNotLast(log, i) == IF log = << >> \/ log[Len(log)] # i THEN Append(log, i) ELSE log

\* Lines 361-427 for step stepIdx. The last step of a dry run: screenshot
\* (may raise), the step_info becomes dry_run_complete and is appended, the
\* row becomes dry_run_ok, and the browser is being closed. Any other step:
\* the submit control is clicked (a failure is recorded as submit_error), the
\* step_info is appended unless it is the log's last entry, and the loop
\* goes on.
Submit(r) ==
  LET i == stepIdx[r] IN
  /\ pc[r] = "submit"
  /\ ~cancelReq[r]
  /\ IF DryRunLast(r)
     THEN \E shot_ok \in BOOLEAN :
            IF shot_ok
            THEN LET st == [stepStatus[r] EXCEPT ![i] = "dry_run_complete"]
                     log == Append(steps_log[r], i)
                 IN /\ stepStatus' = [stepStatus EXCEPT ![r] = st]
                    /\ steps_log' = [steps_log EXCEPT ![r] = log]
                    /\ db' = [db EXCEPT ![r].status = "dry_run_ok",
                                        ![r].screenshot = TRUE,
                                        ![r].steps_log = Snapshot(log, st)]
                    /\ Publish(r, <<EvCompleted("dry_run_ok")>>)
                    /\ pc' = [pc EXCEPT ![r] = "dry_close"]
                    /\ UNCHANGED <<poolVars, vncSid, results, registered, stops,
                                   stepIdx, clicks, acts>>
            ELSE /\ Handler(r, "exception", steps_log[r], stepStatus[r])
                 /\ Publish(r, <<EvFailed>>)
                 /\ UNCHANGED <<steps_log, stepStatus, stepIdx, clicks, acts>>
     ELSE \E click_ok \in BOOLEAN :
            /\ clicks' = [clicks EXCEPT ![r] = Append(@, i)]
            /\ acts' = [acts EXCEPT ![r] = Append(@, <<"click", i>>)]
            /\ stepStatus' = [stepStatus EXCEPT ![r][i] =
                                IF click_ok THEN "submitted" ELSE "submit_error"]
            /\ steps_log' = [steps_log EXCEPT ![r] = AppendIfNotLast(@, i)]
            /\ Publish(r, <<Ev("step_completed", i,
                               IF click_ok THEN "submitted" ELSE "submit_error")>>)
            /\ IF IsLast(r)
               THEN pc' = [pc EXCEPT ![r] = "final"] /\ UNCHANGED stepIdx
               ELSE /\ pc' = [pc EXCEPT ![r] = "step"]
                    /\ stepIdx' = [stepIdx EXCEPT ![r] = i + 1]
            /\ UNCHANGED <<poolVars, vncSid, db, results, registered, stops>>
  /\ UNCHANGED <<quietVars, apiVars, req, cancelReq, resSid, started, waits, resumes, closeRaised>>

\* Lines 429-473: the final screenshot and browser.close() (either may raise
\* inside the try block), then the row becomes success and execute returns.
Final(r) ==
  /\ pc[r] = "final"
  /\ ~cancelReq[r]
  /\ \E out \in {"ok", "screenshot_raised", "close_raised"} :
       IF out = "ok"
       THEN /\ db' = [db EXCEPT ![r].status = "success", ![r].screenshot = TRUE,
                                ![r].steps_log = Snapshot(steps_log[r], stepStatus[r])]
            /\ Publish(r, <<EvCompleted("success")>>)
            /\ Finally(r)
            /\ RunReturn(r, [status |-> "success", error |-> "none"])
            /\ UNCHANGED closeRaised
       ELSE /\ Handler(r, "exception", steps_log[r], stepStatus[r])
            /\ Publish(r, <<EvFailed>>)
            /\ closeRaised' = [closeRaised EXCEPT ![r] = @ \/ out = "close_raised"]
  /\ UNCHANGED <<quietVars, acts, apiVars, req, cancelReq, stepIdx, resSid, steps_log, stepStatus,
                 clicks, started, waits, resumes>>

\* Lines 396-402: browser.close() after the dry run was persisted; it returns
\* and execute returns dry_run_ok, or it raises inside the try block.
DryClose(r) ==
  /\ pc[r] = "dry_close"
  /\ ~cancelReq[r]
  /\ \E ok \in BOOLEAN :
       IF ok
       THEN /\ Finally(r)
            /\ RunReturn(r, [status |-> "dry_run_ok", error |-> "none"])
            /\ UNCHANGED <<db, closeRaised, events>>
       ELSE /\ Handler(r, "exception", steps_log[r], stepStatus[r])
            /\ Publish(r, <<EvFailed>>)
            /\ closeRaised' = [closeRaised EXCEPT ![r] = TRUE]
  /\ UNCHANGED <<quietVars, acts, apiVars, req, cancelReq, stepIdx, resSid, steps_log, stepStatus,
                 clicks, started, waits, resumes>>

\* ------------------------------------------------------ api/vnc.py
\* Largest number of /vnc/resume requests per session the model follows.
MaxResumes == 2

\* resume_vnc -> resume_session: fire the event of a session of the pool;
\* "not_found" for any other id.
resume_vnc(sid) ==
  /\ resumes[sid] < MaxResumes
  /\ IF sid \in DOMAIN sessions
     THEN /\ sessions' = [sessions EXCEPT ![sid].status = "resumed"]
          /\ resume_event' = [resume_event EXCEPT ![sid] = TRUE]
          /\ resumes' = [resumes EXCEPT ![sid] =
                           IF sessions[sid].execution_id \in Runs THEN @ + 1 ELSE @]
          /\ UNCHANGED <<xvfb, tokenFile, websockify, nextSid, minted>>
     ELSE UNCHANGED <<poolVars, resumes>>
  /\ UNCHANGED <<sideVars, acts, apiVars, runVars, stops, clicks, started, waits, closeRaised>>

\* stop_vnc -> stop_session.
stop_vnc(sid) ==
  /\ stop_session(sid)
  /\ UNCHANGED <<sideVars, apiVars, runVars, histVars>>

\* VNCManager.cleanup, at any time.
Cleanup ==
  /\ cleanup
  /\ UNCHANGED <<sideVars, apiVars, runVars, histVars>>

\* start_vnc -> start_session: reserve_display up to its first sleep; no free
\* slot raises out of the request.
ApiStart ==
  /\ apiPc \in {"idle", "done"}
  /\ apiStarts < MaxApiStarts
  /\ nextSid \in SIDs
  /\ FreeSlots(sessions) # {}
  /\ \E ok \in BOOLEAN : ReserveInsert(0, nextSid, ok)
  /\ apiSid' = nextSid
  /\ apiStarts' = apiStarts + 1
  /\ apiPc' = "reserve_wait"
  /\ UNCHANGED <<sideVars, runVars, histVars>>

\* start_session, reserve_display lines 201-209, then activate_vnc when the
\* display is up (ValueError ends the request if the session was stopped).
ApiReserveCheck ==
  /\ apiPc = "reserve_wait"
  /\ IF xvfb[apiSid].st # "alive"
     THEN ReservePop(apiSid) /\ apiPc' = "reserve_retry_sleep"
     ELSE IF apiSid \in DOMAIN sessions
     THEN activate_vnc(apiSid) /\ apiPc' = "done"
     ELSE UNCHANGED poolVars /\ apiPc' = "done"
  /\ UNCHANGED <<sideVars, apiSid, apiStarts, runVars, histVars>>

\* start_session, reserve_display lines 210-211.
ApiReserveRetryStart ==
  /\ apiPc = "reserve_retry_sleep"
  /\ \E ok \in BOOLEAN : ReserveRestart(apiSid, ok)
  /\ apiPc' = "reserve_retry_wait"
  /\ UNCHANGED <<sideVars, apiSid, apiStarts, runVars, histVars>>

\* start_session, reserve_display lines 212-231, then activate_vnc.
ApiReserveRetryCheck ==
  /\ apiPc = "reserve_retry_wait"
  /\ IF xvfb[apiSid].st = "alive"
     THEN /\ sessions' = [Put(sessions, apiSid, NewSession(0, xvfb[apiSid].slot))
                            EXCEPT ![apiSid].x11vnc_proc = TRUE,
                                   ![apiSid].vnc_token = FreshToken(apiSid),
                                   ![apiSid].status = "active"]
          /\ resume_event' = [resume_event EXCEPT ![apiSid] = FALSE]
          /\ tokenFile' = (IF websockify THEN tokenFile ELSE {})
                            \cup {<<FreshToken(apiSid), _vnc_port_for_slot(xvfb[apiSid].slot)>>}
          /\ websockify' = TRUE
          /\ minted' = [minted EXCEPT ![apiSid] = @ + 1]
          /\ UNCHANGED <<xvfb, nextSid>>
     ELSE UNCHANGED poolVars
  /\ apiPc' = "done"
  /\ UNCHANGED <<sideVars, apiSid, apiStarts, runVars, histVars>>

\* ---------------------------------------------------------------- Next
Next ==
  \/ \E r \in Runs : execute_task(r)
  \/ \E r \in Runs : cancel_execution(r)
  \/ \E r \in Runs : CancelDeliver(r)
  \/ \E r \in Runs : RunStart(r)
  \/ \E r \in Runs : ReserveCheck(r)
  \/ \E r \in Runs : ReserveRetryStart(r)
  \/ \E r \in Runs : ReserveRetryCheck(r)
  \/ \E r \in Runs : Launch(r)
  \/ \E r \in Runs : Step(r)
  \/ \E r \in Runs : PauseBegin(r)
  \/ \E r \in Runs : PauseResumed(r)
  \/ \E r \in Runs : PauseTimeout(r)
  \/ \E r \in Runs : TimeoutClose(r)
  \/ \E r \in Runs : Submit(r)
  \/ \E r \in Runs : Final(r)
  \/ \E r \in Runs : DryClose(r)
  \/ \E s \in SIDs : resume_vnc(s)
  \/ \E s \in SIDs : stop_vnc(s)
  \/ Cleanup
  \/ ApiStart
  \/ ApiReserveCheck
  \/ ApiReserveRetryStart
  \/ ApiReserveRetryCheck

Spec == Init /\ [][Next]_vars

\* ------------------------------- TaskExecutor._order_form_definitions
\* Largest number of form definitions of a task.
MaxDefs == 3
\* Largest step_order value.
MaxStepOrder == 3
\* Number of calls of _order_form_definitions on the same rows.
MaxOrderCalls == 2

\* depends_on_step_order is None.
NoDep == 0

\* The sets of FormDefinition rows a task may have: distinct ids (1..n stand
\* for the uuids, in the order of their strings), any step_order, any
\* depends_on_step_order.
TaskForms ==
  UNION {{{[id |-> i, step_order |-> f[i][1], depends_on_step_order |-> f[i][2]]
             : i \in 1..n}
            : f \in [1..n -> (1..MaxStepOrder) \X ({NoDep} \cup 1..MaxStepOrder)]}
           : n \in 0..MaxDefs}

\* _step_sort_key(a) < _step_sort_key(b): tuples (step_order, str(id)).
_step_sort_key(a, b) ==
  \/ a.step_order < b.step_order
  \/ a.step_order = b.step_order /\ a.id < b.id

\* sorted(S, key=self._step_sort_key); ids are distinct, so the keys are.
RECURSIVE sorted(_)
sorted(S) ==
  IF S = {} THEN << >>
  ELSE LET m == CHOOSE x \in S : \A y \in S \ {x} : _step_sort_key(x, y)
       IN <<m>> \o sorted(S \ {m})

\* Lines 40-44: some step_order value is taken by two rows.
DuplicateStepOrder(S) == \E a, b \in S : a # b /\ a.step_order = b.step_order

\* step_to_def.get(dependency): the rows with that step_order.
Parents(S, d) == {p \in S : p.step_order = d.depends_on_step_order}

\* Lines 49-57: a dependency names no row, or the row itself.
InvalidDependency(S) ==
  \E d \in S : /\ d.depends_on_step_order # NoDep
                /\ (Parents(S, d) = {} \/ d \in Parents(S, d))

\* children[p.id]
Children(S, p) ==
  {d \in S : d.depends_on_step_order # NoDep /\ d.depends_on_step_order = p.step_order}

\* A graph walk that takes the last row of the sorted ready list.
RECURSIVE GraphOrderLastReady(_, _, _)
GraphOrderLastReady(S, ready, graph_order) ==
  IF ready = {} THEN graph_order
  ELSE LET current == sorted(ready)[Cardinality(ready)]
       IN GraphOrderLastReady(S, (ready \ {current}) \cup Children(S, current),
                              Append(graph_order, current))

\* Lines 65-79: pop the first row of the sorted ready list, append it to the
\* order, make its children ready (a row has at most one dependency, so its
\* indegree drops to 0 when its parent is taken), sort the ready list again.
RECURSIVE GraphOrder(_, _, _)
GraphOrder(S, ready, graph_order) ==
  IF ready = {} THEN graph_order
  ELSE LET current == sorted(ready)[1]
       IN GraphOrder(S, (ready \ {current}) \cup Children(S, current),
                     Append(graph_order, current))

\* The resolver without any fallback: always the plain sort.
OrderLinear(S) == sorted(S)

\* The resolver without its cycle check (lines 81-83): it returns whatever
\* the graph walk has collected.
OrderNoCycleCheck(S) ==
  LET ordered_by_step == sorted(S) IN
  IF Cardinality(S) <= 1 THEN ordered_by_step
  ELSE IF DuplicateStepOrder(S) THEN ordered_by_step
  ELSE IF InvalidDependency(S) THEN ordered_by_step
  ELSE GraphOrder(S, {d \in S : d.depends_on_step_order = NoDep}, << >>)

\* _order_form_definitions, lines 33-85.
_order_form_definitions(S) ==
  LET ordered_by_step == sorted(S) IN
  IF Cardinality(S) <= 1 THEN ordered_by_step
  ELSE IF DuplicateStepOrder(S) THEN ordered_by_step
  ELSE IF InvalidDependency(S) THEN ordered_by_step
  ELSE LET graph_order ==
             GraphOrder(S, {d \in S : d.depends_on_step_order = NoDep}, << >>)
       IN IF Len(graph_order) # Len(ordered_by_step) THEN ordered_by_step
          ELSE graph_order

\* A task with any set of form definitions; nothing resolved yet.
OrderInit ==
  /\ ServiceInit
  /\ FillIdle
  /\ SubIdle
  /\ form_defs \in TaskForms
  /\ orders = << >>
  /\ loopPos = 0

\* execute line 217: form_defs = self._order_form_definitions(raw_form_defs).
OrderCall ==
  /\ Len(orders) < MaxOrderCalls
  /\ orders' = Append(orders, _order_form_definitions(form_defs))
  /\ UNCHANGED <<form_defs, loopPos, poolVars, apiVars, runVars, histVars, clientVars, extraVars>>

\* execute line 254: the loop takes the next step of the resolved order.
LoopStep ==
  /\ orders # << >>
  /\ loopPos < Len(orders[1])
  /\ loopPos' = loopPos + 1
  /\ UNCHANGED <<form_defs, orders, poolVars, apiVars, runVars, histVars, clientVars, extraVars>>

OrderNext == OrderCall \/ LoopStep

OrderSpec == OrderInit /\ [][OrderNext]_vars

\* ---------------------------------- VNCManager under any of its callers
\* The pool as its other callers drive it (api/vnc.py, api/analyze.py,
\* services/form_analyzer.py, services/login_analyzer.py): each action is one
\* method call, or one stretch of reserve_display between two sleeps. A
\* caller passes a session id that reserve_display has returned to someone,
\* or an id the pool has never seen.

\* Largest number of tokens minted for one session.
MaxTokens == 2

\* The ids a caller can pass: returned by reserve_display, or never used.
CallerIds == issued \cup {s \in SIDs : s >= nextSid}

\* The frame of a method call that involves neither reserve_display nor
\* wait_for_resume.
CallFrame == UNCHANGED <<callPc, callSid, issued, waiter, apiVars, runVars, ordVars, extraVars,
                         stops, clicks, started, waits, closeRaised, acts>>

\* reserve_display lines 181-199, called by caller c: RuntimeError when no
\* slot is free, otherwise the session is stored and the caller sleeps.
Reserve(c) ==
  /\ callPc[c] = "idle"
  /\ freed' = NoSlot
  /\ IF FreeSlots(sessions) = {}
     THEN /\ ret' = [op |-> "reserve_display", sid |-> NoSession, result |-> "no_free_slot"]
          /\ UNCHANGED <<poolVars, callPc, callSid>>
     ELSE /\ nextSid \in SIDs
          /\ \E ok \in BOOLEAN : ReserveInsert(0, nextSid, ok)
          /\ callSid' = [callSid EXCEPT ![c] = nextSid]
          /\ callPc' = [callPc EXCEPT ![c] = "reserve_wait"]
          /\ ret' = [op |-> "reserve_display", sid |-> nextSid, result |-> "pending"]
  /\ UNCHANGED <<issued, waiter, apiVars, runVars, histVars, ordVars, extraVars>>

\* reserve_display lines 201-209 and, when Xvfb is up, the return at 228.
ReserveWake(c) ==
  /\ callPc[c] = "reserve_wait"
  /\ IF xvfb[callSid[c]].st = "alive"
     THEN /\ issued' = issued \cup {callSid[c]}
          /\ callPc' = [callPc EXCEPT ![c] = "idle"]
          /\ ret' = [op |-> "reserve_return", sid |-> callSid[c], result |-> "reserved"]
          /\ UNCHANGED poolVars
     ELSE /\ ReservePop(callSid[c])
          /\ callPc' = [callPc EXCEPT ![c] = "reserve_retry_sleep"]
          /\ ret' = [op |-> "reserve_return", sid |-> callSid[c], result |-> "pending"]
          /\ UNCHANGED issued
  /\ UNCHANGED <<callSid, waiter, freed, apiVars, runVars, histVars, ordVars, extraVars>>

\* reserve_display lines 210-211.
ReserveRetry(c) ==
  /\ callPc[c] = "reserve_retry_sleep"
  /\ \E ok \in BOOLEAN : ReserveRestart(callSid[c], ok)
  /\ callPc' = [callPc EXCEPT ![c] = "reserve_retry_wait"]
  /\ ret' = [op |-> "reserve_return", sid |-> callSid[c], result |-> "retrying"]
  /\ UNCHANGED <<callSid, issued, waiter, freed, apiVars, runVars, histVars, ordVars, extraVars>>

\* reserve_display lines 212-231.
ReserveFinish(c) ==
  /\ callPc[c] = "reserve_retry_wait"
  /\ IF xvfb[callSid[c]].st = "alive"
     THEN /\ ReserveReinsert(0, callSid[c])
          /\ issued' = issued \cup {callSid[c]}
          /\ ret' = [op |-> "reserve_return", sid |-> callSid[c], result |-> "reserved"]
     ELSE /\ ret' = [op |-> "reserve_return", sid |-> callSid[c], result |-> "xvfb_failed"]
          /\ UNCHANGED <<poolVars, issued>>
  /\ callPc' = [callPc EXCEPT ![c] = "idle"]
  /\ UNCHANGED <<callSid, waiter, freed, apiVars, runVars, histVars, ordVars, extraVars>>

\* activate_vnc(sid): ValueError for a session that is not in the pool.
Activate(sid) ==
  /\ sid \in CallerIds
  /\ minted[sid] < MaxTokens
  /\ IF sid \in DOMAIN sessions
     THEN /\ activate_vnc(sid)
          /\ ret' = [op |-> "activate_vnc", sid |-> sid, result |-> "active"]
     ELSE /\ ret' = [op |-> "activate_vnc", sid |-> sid, result |-> "ValueError"]
          /\ UNCHANGED poolVars
  /\ UNCHANGED <<freed, resumes>>
  /\ CallFrame

\* deactivate_vnc(sid).
Deactivate(sid) ==
  /\ sid \in CallerIds
  /\ deactivate_vnc(sid)
  /\ ret' = [op |-> "deactivate_vnc", sid |-> sid, result |-> "none"]
  /\ UNCHANGED <<freed, resumes>>
  /\ CallFrame

\* A resume_session that flips the signal instead of setting it.
ResumeToggle(sid) ==
  /\ sid \in CallerIds
  /\ IF sid \in DOMAIN sessions
     THEN /\ sessions' = [sessions EXCEPT ![sid].status = "resumed"]
          /\ resume_event' = [resume_event EXCEPT ![sid] = ~@]
          /\ ret' = [op |-> "resume_session", sid |-> sid, result |-> "resumed"]
          /\ UNCHANGED <<xvfb, tokenFile, websockify, nextSid, minted>>
     ELSE /\ ret' = [op |-> "resume_session", sid |-> sid, result |-> "not_found"]
          /\ UNCHANGED poolVars
  /\ UNCHANGED <<freed, resumes>>
  /\ CallFrame

\* resume_session(sid, execution_id).
Resume(sid) ==
  /\ sid \in CallerIds
  /\ IF sid \in DOMAIN sessions
     THEN /\ sessions' = [sessions EXCEPT ![sid].status = "resumed"]
          /\ resume_event' = [resume_event EXCEPT ![sid] = TRUE]
          /\ ret' = [op |-> "resume_session", sid |-> sid, result |-> "resumed"]
          /\ UNCHANGED <<xvfb, tokenFile, websockify, nextSid, minted>>
     ELSE /\ ret' = [op |-> "resume_session", sid |-> sid, result |-> "not_found"]
          /\ UNCHANGED poolVars
  /\ UNCHANGED <<freed, resumes>>
  /\ CallFrame

\* stop_session(sid).
Stop(sid) ==
  /\ sid \in CallerIds
  /\ stop_session(sid)
  /\ ret' = [op |-> "stop_session", sid |-> sid,
              result |-> IF sid \in DOMAIN sessions THEN "stopped" ELSE "not_found"]
  /\ freed' = IF sid \in DOMAIN sessions /\ Cardinality(DOMAIN sessions) = MAX_SESSIONS
              THEN sessions[sid].slot ELSE freed
  /\ UNCHANGED resumes
  /\ CallFrame

\* cleanup().
PoolCleanup ==
  /\ cleanup
  /\ ret' = [op |-> "cleanup", sid |-> NoSession, result |-> "none"]
  /\ freed' = NoSlot
  /\ UNCHANGED resumes
  /\ CallFrame

\* wait_for_resume(sid), lines 305-310: False at once for a session that is
\* not in the pool, True at once when the session's event is already set,
\* otherwise the caller blocks on the event.
WaitBegin(sid) ==
  /\ sid \in CallerIds
  /\ waiter.pc # "blocked"
  /\ waiter' = IF sid \notin DOMAIN sessions
                THEN [pc |-> "returned", sid |-> sid, result |-> FALSE]
                ELSE IF resume_event[sid]
                THEN [pc |-> "returned", sid |-> sid, result |-> TRUE]
                ELSE [pc |-> "blocked", sid |-> sid, result |-> FALSE]
  /\ ret' = [op |-> "wait_for_resume", sid |-> sid, result |-> waiter'.pc]
  /\ UNCHANGED <<poolVars, callPc, callSid, issued, freed, apiVars, runVars, histVars, ordVars, extraVars>>

\* wait_for_resume lines 309-310: the event was set while the caller waited.
WaitReturn ==
  /\ waiter.pc = "blocked"
  /\ resume_event[waiter.sid]
  /\ waiter' = [waiter EXCEPT !.pc = "returned", !.result = TRUE]
  /\ ret' = [op |-> "wait_for_resume", sid |-> waiter.sid, result |-> "True"]
  /\ UNCHANGED <<poolVars, callPc, callSid, issued, freed, apiVars, runVars, histVars, ordVars, extraVars>>

\* wait_for_resume lines 311-312: the timeout elapsed first.
WaitTimeout ==
  /\ waiter.pc = "blocked"
  /\ ~resume_event[waiter.sid]
  /\ waiter' = [waiter EXCEPT !.pc = "returned", !.result = FALSE]
  /\ ret' = [op |-> "wait_for_resume", sid |-> waiter.sid, result |-> "False"]
  /\ UNCHANGED <<poolVars, callPc, callSid, issued, freed, apiVars, runVars, histVars, ordVars, extraVars>>

PoolNext ==
  \/ \E c \in Callers : Reserve(c)
  \/ \E c \in Callers : ReserveWake(c)
  \/ \E c \in Callers : ReserveRetry(c)
  \/ \E c \in Callers : ReserveFinish(c)
  \/ \E s \in SIDs : Activate(s)
  \/ \E s \in SIDs : Deactivate(s)
  \/ \E s \in SIDs : Resume(s)
  \/ \E s \in SIDs : Stop(s)
  \/ \E s \in SIDs : WaitBegin(s)
  \/ WaitReturn
  \/ WaitTimeout
  \/ PoolCleanup

PoolSpec == Init /\ [][PoolNext]_vars

\* The event loop runs a coroutine whose awaited event is set.
PoolFairSpec == PoolSpec /\ WF_vars(WaitReturn)

\* ------------------------------------------------- editing sessions
\* One task id under which interactive editing sessions are built
\* (api/analyze.py), registered (highlighter_registry.py) and driven
\* (api/editing.py). A session object lives on after it left the registry:
\* the request handlers and the login task that hold it go on using it.

\* Largest number of rows in ExecuteLoginRequest.login_fields.
MaxLoginFields == 2

ValidModes == {"select", "add", "remove"}
\* The modes a set_mode request is made with.
Modes == {"select", "add", "bogus"}
Urls == {"start", "target"}
\* LoginFieldPayload.value: empty, blank, or with text.
LoginValues == {"", " ", "x"}
LoginFieldKinds ==
  [field_type : {"text", "submit"}, is_required : BOOLEAN, value : LoginValues]
LoginFieldLists == UNION {[1..n -> LoginFieldKinds] : n \in 0..MaxLoginFields}
\* ExecuteLoginRequest: the part that decides the path of the task.
LoginRequests == [human_breakpoint : BOOLEAN]
NoNav == [pc |-> "idle", url |-> "none"]
\* The reply slot after a step of a background task.
Background == [op |-> "_run", code |-> 0]

\* What the editing actions leave alone.
EditFrame == UNCHANGED <<apiVars, runVars, histVars, ordVars, clientVars, fillVars, subVars, events,
                         regVars>>

\* str.strip() on a value.
strip(v) == IF v = " " THEN "" ELSE v

\* Line 392: rows of type submit or button are not filled.
Fillable(f) == f.field_type \notin {"submit", "button"}

\* A field loop that counts a failure only for required rows.
FillErrorsRequiredOnly(fs, raised) ==
  {j \in 1..Len(fs) : Fillable(fs[j]) /\ raised[j] /\ fs[j].is_required}

\* Lines 411-415: the rows whose fill raised and that are required or carry
\* a value that is not blank.
fill_errors(fs, raised) ==
  {j \in 1..Len(fs) : /\ Fillable(fs[j]) /\ raised[j]
                       /\ (fs[j].is_required \/ strip(fs[j].value) # "")}

\* The gravest failure among the rows whose fill raised: a row that is
\* required or has a value that is not blank, else a row with a blank
\* value, else a row with an empty value.
FailClass(fs, raised) ==
  LET F == {j \in 1..Len(fs) : Fillable(fs[j]) /\ raised[j]} IN
  IF \E j \in F : fs[j].is_required \/ strip(fs[j].value) # "" THEN "required_or_valued"
  ELSE IF \E j \in F : fs[j].value # "" THEN "optional_blank"
  ELSE IF F # {} THEN "optional_empty"
  ELSE "none"

\* A readiness test that looks at the executing flag only.
ReadyIgnoresNavigating(o) == ~edit[o].executing

\* _assert_session_command_ready: neither busy flag is set.
_assert_session_command_ready(o) == ~edit[o].executing /\ ~edit[o].navigating

\* _get_session and, for a guarded command, _assert_session_command_ready:
\* the status of the rejection, 0 when the command goes on.
RejectCode(guarded) ==
  IF hreg = NoObj THEN 404
  ELSE IF guarded /\ ~_assert_session_command_ready(hreg) THEN 409
  ELSE 0

\* ---- api/analyze.py: analyze_url_interactive and its _run task
\* Lines 52-66 and reserve_display up to its first sleep. No free slot
\* raises inside _run before a session id is known.
analyze_url_interactive(o) ==
  /\ anaPc[o] = "idle"
  /\ \A p \in EditObjs : p < o => anaPc[p] # "idle"
  /\ IF FreeSlots(sessions) = {}
     THEN /\ anaPc' = [anaPc EXCEPT ![o] = "done"]
          /\ UNCHANGED <<poolVars, anaSid>>
     ELSE /\ nextSid \in SIDs
          /\ \E ok \in BOOLEAN : ReserveInsert(EditOwner, nextSid, ok)
          /\ anaSid' = [anaSid EXCEPT ![o] = nextSid]
          /\ anaPc' = [anaPc EXCEPT ![o] = "reserve_wait"]
  /\ reply' = [op |-> "analyze_interactive", code |-> 200]
  /\ UNCHANGED <<hreg, edit, dom, navPc, loginPc, loginReq, loginDone, submits,
                 fillFail, earlyResume>>
  /\ EditFrame

\* reserve_display lines 201-209 and, when Xvfb is up, its return (line 67).
AnalyzeReserveCheck(o) ==
  /\ anaPc[o] = "reserve_wait"
  /\ IF xvfb[anaSid[o]].st = "alive"
     THEN /\ anaPc' = [anaPc EXCEPT ![o] = "setup"]
          /\ UNCHANGED poolVars
     ELSE /\ ReservePop(anaSid[o])
          /\ anaPc' = [anaPc EXCEPT ![o] = "reserve_retry_sleep"]
  /\ reply' = Background
  /\ UNCHANGED <<hreg, edit, dom, anaSid, navPc, loginPc, loginReq, loginDone, submits,
                 fillFail, earlyResume>>
  /\ EditFrame

\* reserve_display lines 210-211.
AnalyzeRetryStart(o) ==
  /\ anaPc[o] = "reserve_retry_sleep"
  /\ \E ok \in BOOLEAN : ReserveRestart(anaSid[o], ok)
  /\ anaPc' = [anaPc EXCEPT ![o] = "reserve_retry_wait"]
  /\ reply' = Background
  /\ UNCHANGED <<hreg, edit, dom, anaSid, navPc, loginPc, loginReq, loginDone, submits,
                 fillFail, earlyResume>>
  /\ EditFrame

\* reserve_display lines 212-231: the second failure raises inside _run with
\* vnc_session_id still None, so its handler stops nothing.
AnalyzeRetryCheck(o) ==
  /\ anaPc[o] = "reserve_retry_wait"
  /\ IF xvfb[anaSid[o]].st = "alive"
     THEN /\ ReserveReinsert(EditOwner, anaSid[o])
          /\ anaPc' = [anaPc EXCEPT ![o] = "setup"]
     ELSE /\ anaPc' = [anaPc EXCEPT ![o] = "done"]
          /\ UNCHANGED poolVars
  /\ reply' = Background
  /\ UNCHANGED <<hreg, edit, dom, anaSid, navPc, loginPc, loginReq, loginDone, submits,
                 fillFail, earlyResume>>
  /\ EditFrame

\* Lines 70-131: launch the browser, load the page, inject the overlay (any
\* of them may raise: the handler closes the browser and stops the display
\* session, lines 159-178), then activate_vnc up to its sleep (ValueError
\* for a session that is not in the pool).
AnalyzeSetup(o) ==
  /\ anaPc[o] = "setup"
  /\ \E ok \in BOOLEAN :
       IF ok /\ anaSid[o] \in DOMAIN sessions
       THEN /\ activate_vnc(anaSid[o])
            /\ edit' = [edit EXCEPT ![o].browser = "open"]
            /\ anaPc' = [anaPc EXCEPT ![o] = "activate_sleep"]
       ELSE /\ stop_session(anaSid[o])
            /\ edit' = [edit EXCEPT ![o].browser = "closed"]
            /\ anaPc' = [anaPc EXCEPT ![o] = "done"]
  /\ reply' = Background
  /\ UNCHANGED <<hreg, dom, anaSid, navPc, loginPc, loginReq, loginDone, submits,
                 fillFail, earlyResume>>
  /\ EditFrame

\* Lines 133-155 and HighlighterRegistry.register: the new session takes the
\* task id's place in the registry, whatever was there.
AnalyzeRegister(o) ==
  /\ anaPc[o] = "activate_sleep"
  /\ edit' = [edit EXCEPT ![o].vnc_session_id = anaSid[o]]
  /\ hreg' = o
  /\ anaPc' = [anaPc EXCEPT ![o] = "done"]
  /\ reply' = Background
  /\ UNCHANGED <<poolVars, dom, anaSid, navPc, loginPc, loginReq, loginDone, submits,
                 fillFail, earlyResume>>
  /\ EditFrame

\* The positions of _run at which the setup task is registered and not done.
AnalyzeRunning == {"reserve_wait", "reserve_retry_sleep", "reserve_retry_wait",
                   "setup", "activate_sleep"}

\* cancel_task (lines 189-196) and TaskEditingRegistry.cancel on a setup
\* task that is not done, and the CancelledError it throws into _run at
\* the await the task is suspended on: "except asyncio.CancelledError"
\* (lines 157-158) prints, the finally block unregisters the task. A task
\* cancelled between launch and activate_vnc (lines 71-128) has launched
\* its browser or not yet.
cancel_task(o) ==
  /\ anaPc[o] \in AnalyzeRunning
  /\ anaPc' = [anaPc EXCEPT ![o] = "cancelled"]
  /\ IF anaPc[o] = "setup"
     THEN \E launched \in BOOLEAN :
            edit' = [edit EXCEPT ![o].browser = IF launched THEN "open" ELSE @]
     ELSE UNCHANGED edit
  /\ reply' = [op |-> "cancel_task", code |-> 200]
  /\ UNCHANGED <<poolVars, hreg, dom, anaSid, navPc, loginPc, loginReq, loginDone, submits,
                 fillFail, earlyResume>>
  /\ EditFrame

\* ---- highlighter_registry.py
\* cleanup_session: remove the session from the registry, clean the overlay,
\* close the browser and Playwright.
cleanup_session ==
  /\ hreg' = NoObj
  /\ edit' = [edit EXCEPT ![hreg].browser = "closed"]

\* start_cleanup_loop: one pass that finds the registered session stale.
Sweep ==
  /\ hreg # NoObj
  /\ cleanup_session
  /\ reply' = Background
  /\ UNCHANGED <<poolVars, dom, anaPc, anaSid, navPc, loginPc, loginReq, loginDone,
                 submits, fillFail, earlyResume>>
  /\ EditFrame

\* ---- api/editing.py: the commands
CommandFrame ==
  /\ UNCHANGED <<poolVars, hreg, anaPc, anaSid, navPc, loginPc, loginReq, loginDone,
                 submits, fillFail, earlyResume>>
  /\ EditFrame

\* set_mode: 400 for a mode that is none of select, add, remove; then the
\* session and readiness tests; highlighter._mode is set before the page is
\* told (which may raise).
set_mode(m) ==
  /\ IF m \notin ValidModes
     THEN reply' = [op |-> "set_mode", code |-> 400] /\ UNCHANGED <<edit, dom>>
     ELSE IF RejectCode(TRUE) # 0
     THEN reply' = [op |-> "set_mode", code |-> RejectCode(TRUE)] /\ UNCHANGED <<edit, dom>>
     ELSE \E ok \in BOOLEAN :
            /\ dom' = [dom EXCEPT ![hreg].mode = m]
            /\ reply' = [op |-> "set_mode", code |-> IF ok THEN 200 ELSE 500]
            /\ UNCHANGED edit
  /\ CommandFrame

\* update_fields: session.fields is set before the page is told.
update_fields ==
  /\ IF RejectCode(TRUE) # 0
     THEN reply' = [op |-> "update_fields", code |-> RejectCode(TRUE)] /\ UNCHANGED edit
     ELSE \E ok \in BOOLEAN :
            /\ edit' = [edit EXCEPT ![hreg].fields = "edited"]
            /\ reply' = [op |-> "update_fields", code |-> IF ok THEN 200 ELSE 500]
  /\ UNCHANGED dom
  /\ CommandFrame

\* focus_field: scroll and flash, nothing lasting.
focus_field ==
  /\ IF RejectCode(TRUE) # 0
     THEN reply' = [op |-> "focus_field", code |-> RejectCode(TRUE)]
     ELSE \E ok \in BOOLEAN : reply' = [op |-> "focus_field", code |-> IF ok THEN 200 ELSE 500]
  /\ UNCHANGED <<edit, dom>>
  /\ CommandFrame

\* test_selector: flash, nothing lasting.
test_selector ==
  /\ IF RejectCode(TRUE) # 0
     THEN reply' = [op |-> "test_selector", code |-> RejectCode(TRUE)]
     ELSE \E ok \in BOOLEAN : reply' = [op |-> "test_selector", code |-> IF ok THEN 200 ELSE 500]
  /\ UNCHANGED <<edit, dom>>
  /\ CommandFrame

\* fill_field: the page sets the field's value, or the call raises.
fill_field ==
  /\ IF RejectCode(TRUE) # 0
     THEN reply' = [op |-> "fill_field", code |-> RejectCode(TRUE)] /\ UNCHANGED dom
     ELSE \E ok \in BOOLEAN :
            /\ dom' = IF ok THEN [dom EXCEPT ![hreg].value = "x"] ELSE dom
            /\ reply' = [op |-> "fill_field", code |-> IF ok THEN 200 ELSE 500]
  /\ UNCHANGED edit
  /\ CommandFrame

\* read_field_value: no readiness test.
read_field_value ==
  /\ IF RejectCode(FALSE) # 0
     THEN reply' = [op |-> "read_field_value", code |-> RejectCode(FALSE)]
     ELSE \E ok \in BOOLEAN : reply' = [op |-> "read_field_value", code |-> IF ok THEN 200 ELSE 500]
  /\ UNCHANGED <<edit, dom>>
  /\ CommandFrame

\* cleanup_editing: "not_found" without a session, else cleanup_session.
cleanup_editing ==
  /\ IF hreg = NoObj
     THEN UNCHANGED <<hreg, edit>>
     ELSE cleanup_session
  /\ reply' = [op |-> "cleanup", code |-> 200]
  /\ UNCHANGED <<poolVars, dom, anaPc, anaSid, navPc, loginPc, loginReq, loginDone,
                 submits, fillFail, earlyResume>>
  /\ EditFrame

\* navigate_step lines 277-296: the tests, the flag, then page.goto is
\* awaited.
navigate_step(url) ==
  /\ IF hreg = NoObj
     THEN reply' = [op |-> "navigate", code |-> 404] /\ UNCHANGED <<edit, navPc>>
     ELSE IF edit[hreg].executing \/ edit[hreg].navigating
     THEN reply' = [op |-> "navigate", code |-> 409] /\ UNCHANGED <<edit, navPc>>
     ELSE /\ edit' = [edit EXCEPT ![hreg].navigating = TRUE]
          /\ navPc' = [navPc EXCEPT ![hreg] = [pc |-> "goto", url |-> url]]
          /\ reply' = [op |-> "navigate", code |-> 0]
  /\ UNCHANGED <<poolVars, hreg, dom, anaPc, anaSid, loginPc, loginReq, loginDone,
                 submits, fillFail, earlyResume>>
  /\ EditFrame

\* A navigate_step whose flag is cleared on the success path only.
NavigateReturnNoFinally(o) ==
  /\ navPc[o].pc = "goto"
  /\ \E ok \in BOOLEAN :
       /\ edit[o].browser = "closed" => ~ok
       /\ dom' = IF ok THEN [dom EXCEPT ![o].url = navPc[o].url] ELSE dom
       /\ edit' = IF ok THEN [edit EXCEPT ![o].navigating = FALSE] ELSE edit
       /\ reply' = [op |-> "navigate", code |-> IF ok THEN 200 ELSE 500]
  /\ navPc' = [navPc EXCEPT ![o] = NoNav]
  /\ UNCHANGED <<poolVars, hreg, anaPc, anaSid, loginPc, loginReq, loginDone,
                 submits, fillFail, earlyResume>>
  /\ EditFrame

\* navigate_step lines 296-327: page.goto returns or raises (it raises on a
\* closed browser); either way the finally block clears the flag.
NavigateReturn(o) ==
  /\ navPc[o].pc = "goto"
  /\ \E ok \in BOOLEAN :
       /\ edit[o].browser = "closed" => ~ok
       /\ dom' = IF ok THEN [dom EXCEPT ![o].url = navPc[o].url] ELSE dom
       /\ reply' = [op |-> "navigate", code |-> IF ok THEN 200 ELSE 500]
  /\ edit' = [edit EXCEPT ![o].navigating = FALSE]
  /\ navPc' = [navPc EXCEPT ![o] = NoNav]
  /\ UNCHANGED <<poolVars, hreg, anaPc, anaSid, loginPc, loginReq, loginDone,
                 submits, fillFail, earlyResume>>
  /\ EditFrame

\* An execute_login that tests the executing flag only.
ExecuteLoginIgnoresNavigating ==
  /\ IF hreg = NoObj
     THEN /\ reply' = [op |-> "execute_login", code |-> 404]
          /\ UNCHANGED <<edit, loginPc, loginReq, loginDone, submits, fillFail, earlyResume>>
     ELSE IF edit[hreg].executing
     THEN /\ reply' = [op |-> "execute_login", code |-> 409]
          /\ UNCHANGED <<edit, loginPc, loginReq, loginDone, submits, fillFail, earlyResume>>
     ELSE /\ \E q \in LoginRequests : loginReq' = [loginReq EXCEPT ![hreg] = q]
          /\ edit' = [edit EXCEPT ![hreg].executing = TRUE]
          /\ loginPc' = [loginPc EXCEPT ![hreg] = "filling"]
          /\ loginDone' = [loginDone EXCEPT ![hreg] = "none"]
          /\ submits' = [submits EXCEPT ![hreg] = FALSE]
          /\ fillFail' = [fillFail EXCEPT ![hreg] = "none"]
          /\ earlyResume' = [earlyResume EXCEPT ![hreg] = FALSE]
          /\ reply' = [op |-> "execute_login", code |-> 200]
  /\ UNCHANGED <<poolVars, hreg, dom, anaPc, anaSid, navPc>>
  /\ EditFrame

\* execute_login lines 350-357 and 563-564: the tests, the flag, the task.
execute_login ==
  /\ IF hreg = NoObj
     THEN /\ reply' = [op |-> "execute_login", code |-> 404]
          /\ UNCHANGED <<edit, loginPc, loginReq, loginDone, submits, fillFail, earlyResume>>
     ELSE IF edit[hreg].executing \/ edit[hreg].navigating
     THEN /\ reply' = [op |-> "execute_login", code |-> 409]
          /\ UNCHANGED <<edit, loginPc, loginReq, loginDone, submits, fillFail, earlyResume>>
     ELSE /\ \E q \in LoginRequests : loginReq' = [loginReq EXCEPT ![hreg] = q]
          /\ edit' = [edit EXCEPT ![hreg].executing = TRUE]
          /\ loginPc' = [loginPc EXCEPT ![hreg] = "filling"]
          /\ loginDone' = [loginDone EXCEPT ![hreg] = "none"]
          /\ submits' = [submits EXCEPT ![hreg] = FALSE]
          /\ fillFail' = [fillFail EXCEPT ![hreg] = "none"]
          /\ earlyResume' = [earlyResume EXCEPT ![hreg] = FALSE]
          /\ reply' = [op |-> "execute_login", code |-> 200]
  /\ UNCHANGED <<poolVars, hreg, dom, anaPc, anaSid, navPc>>
  /\ EditFrame

\* resume_login: fire the session's resume event.
resume_login ==
  /\ IF hreg = NoObj
     THEN reply' = [op |-> "resume_login", code |-> 404] /\ UNCHANGED <<edit, earlyResume>>
     ELSE /\ edit' = [edit EXCEPT ![hreg].resume_event = TRUE]
          /\ earlyResume' = [earlyResume EXCEPT ![hreg] =
                               @ \/ loginPc[hreg] \in {"filling", "submitting"}]
          /\ reply' = [op |-> "resume_login", code |-> 200]
  /\ UNCHANGED <<poolVars, hreg, dom, anaPc, anaSid, navPc, loginPc, loginReq, loginDone,
                 submits, fillFail>>
  /\ EditFrame

\* ---- api/editing.py: execute_login._run
\* Lines 555-561: the failure event and the finally block.
LoginFail(o) ==
  /\ loginDone' = [loginDone EXCEPT ![o] = "failure"]
  /\ edit' = [edit EXCEPT ![o].executing = FALSE]
  /\ loginPc' = [loginPc EXCEPT ![o] = "done"]

\* Lines 383-419: the field loop over request.login_fields, which no other
\* part of the request handling reads; a fill on a closed browser raises.
LoginFill(o) ==
  /\ loginPc[o] = "filling"
  /\ \E fs \in LoginFieldLists :
       \E raised \in [1..Len(fs) -> BOOLEAN] :
         /\ edit[o].browser = "closed" => \A j \in 1..Len(fs) : raised[j]
         /\ fillFail' = [fillFail EXCEPT ![o] = FailClass(fs, raised)]
         /\ IF fill_errors(fs, raised) # {}
            THEN LoginFail(o)
            ELSE /\ loginPc' = [loginPc EXCEPT ![o] = "submitting"]
                 /\ UNCHANGED <<edit, loginDone>>
  /\ reply' = Background
  /\ UNCHANGED <<poolVars, hreg, dom, anaPc, anaSid, navPc, loginReq, submits, earlyResume>>
  /\ EditFrame

\* Lines 421-508: the submit, which always attempts a click on the submit
\* selector or Enter (lines 438-496) and may raise, and for a human
\* breakpoint _pause_for_human up to its wait: the resume event is cleared.
LoginSubmit(o) ==
  /\ loginPc[o] = "submitting"
  /\ submits' = [submits EXCEPT ![o] = TRUE]
  /\ \E ok \in BOOLEAN :
       /\ edit[o].browser = "closed" => ~ok
       /\ IF ~ok THEN LoginFail(o)
          ELSE IF loginReq[o].human_breakpoint
          THEN /\ edit' = [edit EXCEPT ![o].resume_event = FALSE]
               /\ loginPc' = [loginPc EXCEPT ![o] = "paused"]
               /\ UNCHANGED loginDone
          ELSE /\ loginPc' = [loginPc EXCEPT ![o] = "navigating"]
               /\ UNCHANGED <<edit, loginDone>>
  /\ reply' = Background
  /\ UNCHANGED <<poolVars, hreg, dom, anaPc, anaSid, navPc, loginReq, fillFail, earlyResume>>
  /\ EditFrame

\* Lines 372-380: the resume event is set; the wait returns.
LoginResumed(o) ==
  /\ loginPc[o] = "paused"
  /\ edit[o].resume_event
  /\ loginPc' = [loginPc EXCEPT ![o] = "navigating"]
  /\ reply' = Background
  /\ UNCHANGED <<poolVars, hreg, edit, dom, anaPc, anaSid, navPc, loginReq, loginDone,
                 submits, fillFail, earlyResume>>
  /\ EditFrame

\* Lines 510-561: go to the target page and re-inject the overlay with no
\* fields, then the success event; a raise gives the failure event; the
\* finally block clears the flag.
LoginTarget(o) ==
  /\ loginPc[o] = "navigating"
  /\ \E out \in {"ok", "goto_raised", "inject_raised"} :
       /\ edit[o].browser = "closed" => out = "goto_raised"
       /\ dom' = IF out = "goto_raised" THEN dom ELSE [dom EXCEPT ![o].url = "target"]
       /\ IF out = "ok"
          THEN /\ edit' = [edit EXCEPT ![o].executing = FALSE, ![o].fields = "empty"]
               /\ loginDone' = [loginDone EXCEPT ![o] = "success"]
               /\ loginPc' = [loginPc EXCEPT ![o] = "done"]
          ELSE LoginFail(o)
  /\ reply' = Background
  /\ UNCHANGED <<poolVars, hreg, anaPc, anaSid, navPc, loginReq, submits, fillFail,
                 earlyResume>>
  /\ EditFrame

EditNext ==
  \/ \E o \in EditObjs : analyze_url_interactive(o)
  \/ \E o \in EditObjs : AnalyzeReserveCheck(o)
  \/ \E o \in EditObjs : AnalyzeRetryStart(o)
  \/ \E o \in EditObjs : AnalyzeRetryCheck(o)
  \/ \E o \in EditObjs : AnalyzeSetup(o)
  \/ \E o \in EditObjs : AnalyzeRegister(o)
  \/ \E o \in EditObjs : cancel_task(o)
  \/ Sweep
  \/ \E m \in Modes : set_mode(m)
  \/ update_fields
  \/ focus_field
  \/ test_selector
  \/ fill_field
  \/ read_field_value
  \/ cleanup_editing
  \/ \E u \in Urls : navigate_step(u)
  \/ \E o \in EditObjs : NavigateReturn(o)
  \/ execute_login
  \/ resume_login
  \/ \E o \in EditObjs : LoginFill(o)
  \/ \E o \in EditObjs : LoginSubmit(o)
  \/ \E o \in EditObjs : LoginResumed(o)
  \/ \E o \in EditObjs : LoginTarget(o)

EditSpec == Init /\ [][EditNext]_vars

\* The event loop runs every step of a login task that can run.
EditFairSpec ==
  /\ EditSpec
  /\ \A o \in EditObjs :
       /\ WF_vars(LoginFill(o))
       /\ WF_vars(LoginSubmit(o))
       /\ WF_vars(LoginResumed(o))
       /\ WF_vars(LoginTarget(o))

\* ------------------------------------------- TaskEditingRegistry
\* asyncio.Task.done(): the coroutine of task t has ended (a task whose
\* cancellation was requested is not done until the CancelledError has
\* ended it).
done(t) == bgTask[t].st = "done"

\* TaskEditingRegistry.register.
register(task_id, t) == _tasks' = [_tasks EXCEPT ![task_id] = t]

\* TaskEditingRegistry.unregister, called by task t's finally block:
\* self._tasks.pop(task_id, None).
unregister(task_id, t) == _tasks' = [_tasks EXCEPT ![task_id] = NoTask]

\* TaskEditingRegistry.is_running.
is_running(task_id) == _tasks[task_id] # NoTask /\ ~done(_tasks[task_id])

RegFrame ==
  UNCHANGED <<poolVars, apiVars, runVars, histVars, ordVars, clientVars, editVars, fillVars,
              subVars, events>>

\* analyze_url_interactive lines 184-186: create the task of _run and
\* register it under the request's task id, whatever is registered there.
StartSetup(task_id) ==
  /\ \E t \in Handles :
       /\ bgTask[t].st = "none"
       /\ \A u \in Handles : u < t => bgTask[u].st # "none"
       /\ bgTask' = [bgTask EXCEPT ![t] = [id |-> task_id, st |-> "running"]]
       /\ register(task_id, t)
  /\ regRet' = [op |-> "register", id |-> task_id, result |-> TRUE]
  /\ RegFrame

\* cancel_task and TaskEditingRegistry.cancel: task.cancel() on the
\* registered task when it is not done.
RegCancel(task_id) ==
  LET t == _tasks[task_id] IN
  /\ IF t # NoTask /\ ~done(t)
     THEN /\ bgTask' = [bgTask EXCEPT ![t].st = "cancelling"]
          /\ regRet' = [op |-> "cancel", id |-> task_id, result |-> TRUE]
     ELSE /\ regRet' = [op |-> "cancel", id |-> task_id, result |-> FALSE]
          /\ UNCHANGED bgTask
  /\ UNCHANGED _tasks
  /\ RegFrame

\* A call of is_running.
RegIsRunning(task_id) ==
  /\ regRet' = [op |-> "is_running", id |-> task_id, result |-> is_running(task_id)]
  /\ UNCHANGED <<_tasks, bgTask>>
  /\ RegFrame

\* _run ends: it returned, an exception was handled, or the CancelledError
\* of a cancel reached it; its finally block (lines 181-182) unregisters
\* the task id.
SetupEnds(t) ==
  /\ bgTask[t].st \in {"running", "cancelling"}
  /\ bgTask' = [bgTask EXCEPT ![t].st = "done"]
  /\ unregister(bgTask[t].id, t)
  /\ regRet' = [op |-> "unregister", id |-> bgTask[t].id, result |-> TRUE]
  /\ RegFrame

RegNext ==
  \/ \E id \in TaskIds : StartSetup(id)
  \/ \E id \in TaskIds : RegCancel(id)
  \/ \E id \in TaskIds : RegIsRunning(id)
  \/ \E t \in Handles : SetupEnds(t)

RegSpec == Init /\ [][RegNext]_vars

\* ------------------------------------------- the field loop of one step
\* TaskExecutor.execute, lines 294-424, for one step whose form was found:
\* the FormField rows of the step, the loop that fills them, the human
\* breakpoint and the submit.

\* Largest number of FormField rows of the step.
MaxFields == 3
\* Largest sort_order of a row.
MaxSortOrder == 2

FieldNames == {"a", "b"}
\* FormField: preset_value is null or a value.
FieldRows ==
  [sort_order : 1..MaxSortOrder, field_name : FieldNames, preset_value : {"null", "v"}]

\* Lines 295-298: what the query returns, rows ordered by sort_order.
FieldQueries ==
  {q \in UNION {[1..n -> FieldRows] : n \in 0..MaxFields} :
     \A j \in 1..Len(q) : \A k \in 1..Len(q) : j < k => q[j].sort_order <= q[k].sort_order}

\* Line 347: the key under which the failure of a row is kept in step_info.
ErrorKey(name) == "field_" \o name \o "_error"

FillFrame ==
  UNCHANGED <<poolVars, apiVars, runVars, histVars, ordVars, clientVars, editVars, subVars, events,
              regVars>>

\* The step has any rows and either setting of human_breakpoint; the loop is
\* at its first row.
FillInit ==
  /\ ServiceInit
  /\ SubIdle
  /\ form_defs = {}
  /\ orders = << >>
  /\ loopPos = 0
  /\ step_fields \in FieldQueries
  /\ fieldPos = 1
  /\ step_info = {"navigated"}
  /\ attempts = << >>
  /\ fillPc = "fields"
  /\ fillBreak \in BOOLEAN

\* A loop that gives the step up at the first row whose fill raised.
FillFieldStopsAtFailure ==
  /\ fillPc = "fields"
  /\ fieldPos <= Len(step_fields)
  /\ IF step_fields[fieldPos].preset_value = "null"
     THEN UNCHANGED <<attempts, step_info, fillPc>>
     ELSE \E raised \in BOOLEAN :
            /\ attempts' = Append(attempts, [row |-> fieldPos, raised |-> raised])
            /\ step_info' = IF raised
                            THEN step_info \cup {ErrorKey(step_fields[fieldPos].field_name)}
                            ELSE step_info
            /\ fillPc' = IF raised THEN "submit" ELSE fillPc
  /\ fieldPos' = fieldPos + 1
  /\ UNCHANGED <<step_fields, fillBreak>>
  /\ FillFrame

\* Lines 300-347: one pass of the loop. A row without a preset is skipped;
\* the fill of any other row returns or raises, and a raise is kept in
\* step_info under the row's name.
FillField ==
  /\ fillPc = "fields"
  /\ fieldPos <= Len(step_fields)
  /\ IF step_fields[fieldPos].preset_value = "null"
     THEN UNCHANGED <<attempts, step_info>>
     ELSE \E raised \in BOOLEAN :
            /\ attempts' = Append(attempts, [row |-> fieldPos, raised |-> raised])
            /\ step_info' = IF raised
                            THEN step_info \cup {ErrorKey(step_fields[fieldPos].field_name)}
                            ELSE step_info
  /\ fieldPos' = fieldPos + 1
  /\ UNCHANGED <<step_fields, fillPc, fillBreak>>
  /\ FillFrame

\* Lines 349-350 and 361: after the last row, the human breakpoint if the
\* step has one, else the submit.
FillLoopEnd ==
  /\ fillPc = "fields"
  /\ fieldPos > Len(step_fields)
  /\ fillPc' = IF fillBreak THEN "pause" ELSE "submit"
  /\ UNCHANGED <<step_fields, fieldPos, step_info, attempts, fillBreak>>
  /\ FillFrame

\* Lines 350-359: _vnc_pause returns True after a resume, False after the
\* timeout, and then the run returns "failed".
FillPause ==
  /\ fillPc = "pause"
  /\ \E resumed \in BOOLEAN :
       /\ fillPc' = IF resumed THEN "submit" ELSE "timeout"
       /\ step_info' = step_info \cup {IF resumed THEN "resumed" ELSE "vnc_timeout"}
  /\ UNCHANGED <<step_fields, fieldPos, attempts, fillBreak>>
  /\ FillFrame

\* Lines 404-415: the click on the submit selector, which returns or raises.
FillSubmit ==
  /\ fillPc = "submit"
  /\ \E ok \in BOOLEAN :
       step_info' = step_info \cup (IF ok THEN {"submitted"} ELSE {"submit_error", "error"})
  /\ fillPc' = "done"
  /\ UNCHANGED <<step_fields, fieldPos, attempts, fillBreak>>
  /\ FillFrame

FillNext == FillField \/ FillLoopEnd \/ FillPause \/ FillSubmit

FillSpec == FillInit /\ [][FillNext]_vars

\* ------------------------------- the submit phase of execute_login
\* execute_login._run, lines 421-502, for one task whose fields were filled:
\* each action is one awaited page call or one _wait_for_post_submit.

\* The requests and pages the phase starts from: request.submit_selector is
\* set or not, a submit or button row was seen in the field loop or not, and
\* _capture_dom_marker returned a marker or None.
SubmitInputs ==
  [submit_selector : BOOLEAN, submit_field_selector : BOOLEAN, marker : BOOLEAN]

\* Line 427: effective_submit = request.submit_selector or submit_field_selector.
effective_submit == sub_req.submit_selector \/ sub_req.submit_field_selector

\* _wait_for_post_submit: the tier that saw an effect. The DOM comparison is
\* made only with a marker.
Effects == {"url", "framenavigated"} \cup (IF sub_req.marker THEN {"dom"} ELSE {}) \cup {"none"}

SubmitFrame ==
  UNCHANGED <<poolVars, apiVars, runVars, histVars, ordVars, clientVars, editVars, fillVars, events,
              regVars>>

SubmitInit ==
  /\ ServiceInit
  /\ FillIdle
  /\ form_defs = {}
  /\ orders = << >>
  /\ loopPos = 0
  /\ sub_req \in SubmitInputs
  /\ subPc = "start"
  /\ subTrace = << >>
  /\ submit_method = "keyboard_enter"
  /\ navigation_detected = FALSE

\* Lines 434-444 and 489-490: with a submit control the click, which returns
\* or raises; without one Enter.
SubmitFirst ==
  /\ subPc = "start"
  /\ \E ok \in BOOLEAN :
       IF effective_submit
       THEN /\ submit_method' = "click"
            /\ subTrace' = Append(subTrace, [act |-> "click", result |-> IF ok THEN "ok" ELSE "raised"])
            /\ subPc' = IF ok THEN "check" ELSE "force"
       ELSE /\ submit_method' = submit_method
            /\ subTrace' = Append(subTrace, [act |-> "enter", result |-> IF ok THEN "ok" ELSE "raised"])
            /\ subPc' = IF ok THEN "last_check" ELSE "raised"
  /\ UNCHANGED <<sub_req, navigation_detected>>
  /\ SubmitFrame

\* Lines 445-450: the click raised; the forced click, whose raise ends the
\* task.
SubmitForce ==
  /\ subPc = "force"
  /\ submit_method' = "click_force"
  /\ \E ok \in BOOLEAN :
       /\ subTrace' = Append(subTrace, [act |-> "click_force", result |-> IF ok THEN "ok" ELSE "raised"])
       /\ subPc' = IF ok THEN "check" ELSE "raised"
  /\ UNCHANGED <<sub_req, navigation_detected>>
  /\ SubmitFrame

\* Lines 451-458: the effect check after the click; without an effect the
\* scripted submit is next.
SubmitCheck ==
  /\ subPc = "check"
  /\ \E e \in Effects :
       /\ subTrace' = Append(subTrace, [act |-> "check", result |-> e])
       /\ navigation_detected' = (e # "none")
       /\ subPc' = IF e # "none" THEN "done" ELSE "script"
  /\ UNCHANGED <<sub_req, submit_method>>
  /\ SubmitFrame

\* Lines 459-473: the scripted submit of the control's form. It returns true
\* after submitting, false when the control is not in the page, or raises.
SubmitScript ==
  /\ subPc = "script"
  /\ submit_method' = "click_then_request_submit"
  /\ \E out \in {"submitted", "no_element", "raised"} :
       /\ subTrace' = Append(subTrace, [act |-> "request_submit", result |-> out])
       /\ subPc' = CASE out = "submitted" -> "last_check"
                     [] out = "no_element" -> "enter"
                     [] OTHER -> "raised"
  /\ UNCHANGED <<sub_req, navigation_detected>>
  /\ SubmitFrame

\* Lines 481-483: the control was not in the page: Enter.
SubmitEnter ==
  /\ subPc = "enter"
  /\ submit_method' = "click_then_enter"
  /\ \E ok \in BOOLEAN :
       /\ subTrace' = Append(subTrace, [act |-> "enter", result |-> IF ok THEN "ok" ELSE "raised"])
       /\ subPc' = IF ok THEN "last_check" ELSE "raised"
  /\ UNCHANGED <<sub_req, navigation_detected>>
  /\ SubmitFrame

\* Lines 474-480, 484-488 and 491-496: the effect check after the scripted
\* submit or after Enter, the last of the phase.
SubmitLastCheck ==
  /\ subPc = "last_check"
  /\ \E e \in Effects :
       /\ subTrace' = Append(subTrace, [act |-> "check", result |-> e])
       /\ navigation_detected' = (e # "none")
  /\ subPc' = "done"
  /\ UNCHANGED <<sub_req, submit_method>>
  /\ SubmitFrame

SubmitNext ==
  \/ SubmitFirst
  \/ SubmitForce
  \/ SubmitCheck
  \/ SubmitScript
  \/ SubmitEnter
  \/ SubmitLastCheck

SubmitSpec == SubmitInit /\ [][SubmitNext]_vars

\* ------------------------------------------------------------ claims
\* execute returned to _run_execution after reserve_display had returned a
\* session to it (the run needed a display and the reservation did not raise).
ReturnedAfterReserve(r) ==
  /\ pc[r] = "done"
  /\ needs_vnc(r)
  /\ results[r].error \notin {"no_free_slot", "xvfb_failed"}

\* Number of wait_for_resume calls of run r that returned True.
TrueWaits(r) == Cardinality({j \in 1..Len(waits[r]) : waits[r][j]})

\* The entries of run r's persisted step log that belong to step k.
LogEntries(r, k) == {j \in 1..Len(db[r].steps_log) : db[r].steps_log[j].step = k}

\* Step k of run r paused at its human breakpoint and was resumed: resume
\* was called for the run's session and the step went on after its pause.
PausedAndResumed(r, k) ==
  /\ k \in Steps(r)
  /\ req[r].breakpoint[k]
  /\ resSid[r] # NoSession
  /\ resumes[resSid[r]] > 0
  /\ stepStatus[r][k] \in {"breakpoint_resolved", "submitted", "submit_error",
                           "dry_run_complete"}

\* C1: no two sessions of the pool hold the same slot, and the pool never
\* holds more than MAX_SESSIONS sessions.
C1_SlotsDistinctAndBounded ==
  /\ \A s, t \in DOMAIN sessions : s # t => sessions[s].slot # sessions[t].slot
  /\ Cardinality(DOMAIN sessions) <= MAX_SESSIONS

\* C2: when execute has returned after a successful reserve, whatever the
\* outcome, it has called stop_session exactly once on the run's session and
\* the session is not in the pool; it never calls stop more than once.
C2_StopExactlyOnce ==
  \A r \in Runs :
    /\ stops[r] <= 1
    /\ ReturnedAfterReserve(r) =>
         /\ stops[r] = 1
         /\ resSid[r] \notin DOMAIN sessions
         /\ vncSid[r] = NoSession

\* C2 witness: execute returned after a manual-pause timeout on a reserved display.
C2_Witness ==
  \E r \in Runs :
    /\ ReturnedAfterReserve(r)
    /\ results[r] = [status |-> "failed", error |-> "vnc_timeout"]
    /\ stops[r] = 1

\* C3: once the cancellation of a run that had asked the pool for a display
\* has been processed, the run's session is not in the pool.
C3_CancelReleasesSession ==
  \A r \in Runs :
    (pc[r] = "cancelled" /\ resSid[r] # NoSession) => resSid[r] \notin DOMAIN sessions

\* C4: at the end of a run, the persisted step log holds exactly one entry
\* for every step that paused at its breakpoint and was resumed, and that
\* entry's status is not waiting_manual.
C4_OneEntryPerPausedStep ==
  \A r \in Runs : \A k \in 1..MaxSteps :
    (pc[r] = "done" /\ PausedAndResumed(r, k)) =>
      /\ Cardinality(LogEntries(r, k)) = 1
      /\ \A j \in LogEntries(r, k) : db[r].steps_log[j].status # "waiting_manual"

\* C5: when _run_execution has returned without a cancellation, the row is
\* in one of the terminal statuses success, dry_run_ok, failed.
C5_RunEndsTerminal ==
  \A r \in Runs :
    pc[r] = "done" => db[r].status \in {"success", "dry_run_ok", "failed"}

\* The edges of the run's status machine (with the creation of the row).
StatusEdges ==
  {<<"none", "pending">>, <<"none", "running">>, <<"pending", "running">>,
   <<"running", "waiting_manual">>, <<"waiting_manual", "running">>,
   <<"running", "success">>, <<"running", "dry_run_ok">>, <<"running", "failed">>,
   <<"waiting_manual", "failed">>}

\* C6: every change of the persisted status made by a run that is not being
\* cancelled follows an edge of the status machine; a persisted terminal
\* status never changes.
C6_StatusFollowsMachine ==
  [][\A r \in Runs :
       (pc'[r] # "cancelled" /\ db'[r].status # db[r].status)
         => <<db[r].status, db'[r].status>> \in StatusEdges]_vars

\* C7: after the cancellation of a run that had been set running, the row is
\* failed, for a pre-supplied execution_id and for a task_id alone.
C7_CancelledRunIsFailed ==
  \A r \in Runs :
    (pc[r] = "cancelled" /\ db[r].status \notin {"none", "pending"})
      => db[r].status = "failed"

\* C8: while the run's session is in the pool (it was neither stopped nor
\* cleaned up), the pauses of the run that were released do not outnumber
\* the resume calls made for the session.
C8_OneResumeOnePause ==
  \A r \in Runs :
    vncSid[r] \in DOMAIN sessions => TrueWaits(r) <= resumes[vncSid[r]]

\* C9: wait_for_resume returns True only if resume was called for the session.
C9_TrueOnlyAfterResume ==
  \A r \in Runs : TrueWaits(r) > 0 => resumes[resSid[r]] > 0

\* C10: a run whose wait_for_resume timed out ends failed with the timeout
\* as its error message; the paused step's submit was not clicked, the
\* paused step is the last step started, and the session is stopped.
C10_TimeoutIsFatal ==
  \A r \in Runs :
    (pc[r] = "done" /\ waits[r] # << >> /\ ~waits[r][Len(waits[r])]) =>
      /\ db[r].status = "failed"
      /\ db[r].error = "vnc_timeout"
      /\ \A j \in 1..Len(clicks[r]) : clicks[r][j] # stepIdx[r]
      /\ started[r][Len(started[r])] = stepIdx[r]
      /\ resSid[r] \notin DOMAIN sessions

\* The actions of run r on step k, in order.
StepActs(r, k) ==
  LET sel == SelectSeq(acts[r], LAMBDA e : e[2] = k)
  IN [j \in 1..Len(sel) |-> sel[j][1]]

\* s is a prefix of t.
IsPrefix(s, t) == Len(s) <= Len(t) /\ \A j \in 1..Len(s) : s[j] = t[j]

\* The order of the executor's actions on a human-breakpoint step.
BreakpointOrder == <<"fill", "activate", "wait", "deactivate", "click">>

\* Number of human-breakpoint steps of run r among its steps 1..k.
PausesUpTo(r, k) == Cardinality({j \in 1..k : req[r].breakpoint[j]})

C12_DryRunSkipsLastSubmit ==
  \A r \in Runs :
    (pc[r] = "done" /\ req[r].is_dry_run /\ results[r].status # "failed") =>
      /\ clicks[r] = [j \in 1..(Len(req[r].breakpoint) - 1) |-> j]
      /\ results[r].status = "dry_run_ok"
      /\ db[r].status = "dry_run_ok"
      /\ db[r].screenshot

\* C12 witness: a dry run of two steps has returned dry_run_ok.
C12_Witness ==
  \E r \in Runs :
    /\ pc[r] = "done" /\ req[r].is_dry_run
    /\ Len(req[r].breakpoint) = 2
    /\ results[r].status = "dry_run_ok"
    /\ clicks[r] = <<1>>

\* The position of row d in the order o.
Pos(o, d) == CHOOSE j \in 1..Len(o) : o[j] = d

\* The rows that row d depends on, directly or through other rows.
RECURSIVE Ancestors(_, _, _)
Ancestors(S, D, n) ==
  IF n = 0 THEN {}
  ELSE LET P == UNION {Parents(S, d) : d \in {x \in D : x.depends_on_step_order # NoDep}}
       IN P \cup Ancestors(S, P, n - 1)

\* The dependencies contain a cycle.
Cyclic(S) == \E d \in S : d \in Ancestors(S, {d}, Cardinality(S))

\* Unique step orders, every dependency names an existing other step, no cycle.
ValidGraph(S) == ~DuplicateStepOrder(S) /\ ~InvalidDependency(S) /\ ~Cyclic(S)

\* o holds every row of S exactly once.
IsOrderOf(o, S) == Len(o) = Cardinality(S) /\ {o[j] : j \in 1..Len(o)} = S

C14_FallbackIsLinear ==
  (DuplicateStepOrder(form_defs) \/ InvalidDependency(form_defs) \/ Cyclic(form_defs)) =>
    \A i \in 1..Len(orders) :
      /\ IsOrderOf(orders[i], form_defs)
      /\ \A j, k \in 1..Len(orders[i]) :
           j < k => _step_sort_key(orders[i][j], orders[i][k])

\* C14 witness: the resolver was called on dependencies that form a cycle
\* without any other defect.
C14_Witness ==
  /\ Cyclic(form_defs)
  /\ ~DuplicateStepOrder(form_defs) /\ ~InvalidDependency(form_defs)
  /\ orders # << >>

\* The step is a call of method op on the VNCManager (it is not a
\* stuttering step, and every call records itself in ret).
IsCall(op) == ret'.op = op /\ vars' # vars

\* The tokens of the token file that route to vnc_port port.
RoutesTo(F, port) == {l \in F : l[2] = port}

\* C15: a reserve_display call made while MAX_SESSIONS sessions are held
\* raises the no-free-slot error and leaves the pool as it was; the first
\* reserve_display call after a stop_session on a full pool gets a slot, and
\* that slot is the one the stop freed.
C15_FullPoolRejectsThenReuses ==
  [][IsCall("reserve_display") =>
       /\ Cardinality(DOMAIN sessions) = MAX_SESSIONS =>
             /\ ret'.result = "no_free_slot"
             /\ UNCHANGED <<sessions, xvfb, tokenFile>>
       /\ freed # NoSlot =>
             /\ ret'.result = "pending"
             /\ ret'.sid \in DOMAIN sessions'
             /\ sessions'[ret'.sid].slot = freed]_vars

\* C16: when deactivate_vnc or stop_session returns for a session of the
\* pool, no line of the token file routes to the session's vnc_port; and no
\* two sessions of the pool hold the same token.
C16_NoRouteAfterRevoke ==
  [][/\ \A s \in DOMAIN sessions :
          ((IsCall("deactivate_vnc") \/ IsCall("stop_session")) /\ ret'.sid = s)
            => RoutesTo(tokenFile', sessions[s].vnc_port) = {}
     /\ \A s, t \in DOMAIN sessions' :
          (s # t /\ sessions'[s].vnc_token # NoToken)
            => sessions'[s].vnc_token # sessions'[t].vnc_token]_vars

\* C17: deactivate_vnc on an active session of the pool clears the
\* session's token, framebuffer process and status and removes the token's
\* line from the token file; the session keeps its slot and vnc_port, the
\* Xvfb processes, the resume events, the other sessions and the other
\* lines of the token file stay as they are; and an activate_vnc on a
\* session of the pool succeeds with a token that is in no line of the
\* token file and differs from the tokens held by the sessions.
C17_DeactivateKeepsDisplay ==
  [][/\ \A s \in DOMAIN sessions :
          (IsCall("deactivate_vnc") /\ ret'.sid = s /\ sessions[s].status = "active") =>
            /\ sessions' = [sessions EXCEPT ![s].vnc_token = NoToken,
                                             ![s].x11vnc_proc = FALSE,
                                             ![s].status = "reserved"]
            /\ tokenFile' = {l \in tokenFile : l[1] # sessions[s].vnc_token}
            /\ UNCHANGED <<xvfb, resume_event, websockify>>
     /\ \A s \in DOMAIN sessions :
          (IsCall("activate_vnc") /\ ret'.sid = s) =>
            /\ ret'.result = "active"
            /\ sessions'[s].status = "active"
            /\ sessions'[s].vnc_token # NoToken
            /\ sessions'[s].vnc_token \notin {l[1] : l \in tokenFile}
            /\ \A t \in DOMAIN sessions : sessions'[s].vnc_token # sessions[t].vnc_token
            /\ <<sessions'[s].vnc_token, sessions[s].vnc_port>> \in tokenFile'
            /\ sessions'[s].slot = sessions[s].slot]_vars

\* C17 witness: a session was activated, deactivated and activated again;
\* its Xvfb process is running and its second token is the only one routed.
C17_Witness ==
  \E s \in DOMAIN sessions :
    /\ ret = [op |-> "activate_vnc", sid |-> s, result |-> "active"]
    /\ minted[s] = 2
    /\ xvfb[s].st = "alive"
    /\ tokenFile = {<<sessions[s].vnc_token, sessions[s].vnc_port>>}

\* C18: a caller blocked in wait_for_resume on a session that stop_session
\* or cleanup has removed from the pool eventually returns.
C18_StopUnblocksWaiter ==
  (waiter.pc = "blocked" /\ waiter.sid \notin DOMAIN sessions) ~> (waiter.pc # "blocked")

\* C18 witness: the session was stopped while the caller was blocked on it.
C18_Witness ==
  /\ waiter.pc = "blocked"
  /\ waiter.sid \notin DOMAIN sessions
  /\ ret = [op |-> "stop_session", sid |-> waiter.sid, result |-> "stopped"]

\* C19: a stop_session call on a session of the pool answers "stopped",
\* removes the session, leaves no line of its token in the token file and
\* leaves its slot free; a stop_session call on an id that is not in the
\* pool (stopped before, or never known) answers "not_found" and changes
\* nothing of the pool, the other sessions or the token file.
C19_StopEffectivelyOnce ==
  [][\A s \in SIDs :
       (IsCall("stop_session") /\ ret'.sid = s) =>
          IF s \in DOMAIN sessions
          THEN /\ ret'.result = "stopped"
               /\ s \notin DOMAIN sessions'
               /\ \A line \in tokenFile' : line[1] # sessions[s].vnc_token
               /\ sessions[s].slot \in FreeSlots(sessions')
               /\ \A t \in DOMAIN sessions \ {s} :
                     t \in DOMAIN sessions' /\ sessions'[t] = sessions[t]
          ELSE /\ ret'.result = "not_found"
               /\ UNCHANGED poolVars]_vars

\* C20: resume_session on a session of the pool sets its status to
\* "resumed" and its event, and nothing else, so a second call changes
\* nothing of the pool; a wait_for_resume that starts on a session whose
\* event is already set returns True in the same step.
C20_ResumeIdempotent ==
  [][\A s \in DOMAIN sessions :
       /\ (IsCall("resume_session") /\ ret'.sid = s) =>
             /\ ret'.result = "resumed"
             /\ sessions' = [sessions EXCEPT ![s].status = "resumed"]
             /\ resume_event' = [resume_event EXCEPT ![s] = TRUE]
             /\ UNCHANGED <<xvfb, tokenFile, websockify, nextSid, minted, waiter>>
             /\ (sessions[s].status = "resumed" /\ resume_event[s])
                  => UNCHANGED poolVars
       /\ (IsCall("wait_for_resume") /\ ret'.sid = s
             /\ waiter.pc # "blocked" /\ resume_event[s]) =>
             /\ waiter'.pc = "returned"
             /\ waiter'.result]_vars

\* C20 witness: a wait_for_resume that started on a resumed session of the
\* pool has returned True without blocking.
C20_Witness ==
  \E s \in DOMAIN sessions :
    /\ ret = [op |-> "wait_for_resume", sid |-> s, result |-> "returned"]
    /\ waiter = [pc |-> "returned", sid |-> s, result |-> TRUE]
    /\ sessions[s].status = "resumed"
    /\ resume_event[s]

\* The steps named by a sequence of <<action, step>> pairs or of steps.
ActSteps(r) == {acts[r][j][2] : j \in 1..Len(acts[r])}

\* A step of the request op of the editing API.
IsReq(op) == reply'.op = op /\ vars' # vars

\* A step in which a request op arrives and is tested (for navigate: not the
\* return of the page transition of a request that was let in earlier).
Arrives(op) == IsReq(op) /\ \A o \in EditObjs : navPc[o].pc = "goto" => navPc'[o].pc = "goto"

\* The commands that pass the readiness test.
GuardedOps ==
  {"set_mode", "update_fields", "focus_field", "test_selector", "fill_field",
   "navigate", "execute_login"}

\* The registered session has a busy flag set.
Busy == hreg # NoObj /\ (edit[hreg].executing \/ edit[hreg].navigating)

\* C21: a resume_login served after the login flow started and before it
\* reached its human-breakpoint wait is observed by that wait: the flow at the
\* wait finds the resume event set.
C21_EarlyResumeObserved ==
  \A o \in EditObjs : (loginPc[o] = "paused" /\ earlyResume[o]) => edit[o].resume_event

C24_ExecutingCleared ==
  \A o \in EditObjs : edit[o].executing ~> ~edit[o].executing

\* C25 as stated: when the fill of a row that is required or carries a
\* non-empty value failed, no submit action was attempted and the flow ended
\* with a failure completion event.
C25_FillFailureAborts ==
  \A o \in EditObjs :
    fillFail[o] \in {"required_or_valued", "optional_blank"} =>
      (~submits[o] /\ loginPc[o] = "done" /\ loginDone[o] = "failure")

\* C25, amended: when the fill of a row that is required or carries a value
\* that is not blank after trimming failed, no submit action was attempted
\* and the flow ended with a failure completion event; fill failures of
\* optional rows with an empty or blank value alone do not end the flow: it
\* goes on to its submit.
C25_FillFailureAbortsTrimmed ==
  [][\A o \in EditObjs :
       /\ fillFail'[o] = "required_or_valued" =>
            (~submits'[o] /\ loginPc'[o] = "done" /\ loginDone'[o] = "failure"
             /\ ~edit'[o].executing)
       /\ (loginPc[o] = "filling" /\ loginPc'[o] # "filling"
           /\ fillFail'[o] \in {"optional_empty", "optional_blank", "none"}) =>
            (loginPc'[o] = "submitting" /\ loginDone'[o] = "none")]_vars

\* C25 witness: the fill of a required or valued row failed and the flow
\* ended with the failure event and no submit.
C25_Witness ==
  \E o \in EditObjs :
    /\ fillFail[o] = "required_or_valued"
    /\ loginPc[o] = "done"
    /\ loginDone[o] = "failure"
    /\ ~submits[o]

\* C26: a step whose form selector did not appear ends the run as failed,
\* with exactly one entry for that step in the log, in memory and persisted,
\* and that entry is form_not_found; no field of the step was filled, no
\* viewer was opened and no submit was clicked for it, and no later step was
\* started.
C26_FormNotFoundIsFatal ==
  \A r \in Runs : \A k \in 1..MaxSteps :
    stepStatus[r][k] = "form_not_found" =>
      /\ pc[r] = "done"
      /\ db[r].status = "failed"
      /\ results[r].status = "failed"
      /\ Cardinality({j \in 1..Len(steps_log[r]) : steps_log[r][j] = k}) = 1
      /\ Cardinality(LogEntries(r, k)) = 1
      /\ \A j \in LogEntries(r, k) : db[r].steps_log[j].status = "form_not_found"
      /\ k \notin ActSteps(r)
      /\ \A j \in 1..Len(clicks[r]) : clicks[r][j] # k
      /\ \A j \in 1..Len(started[r]) : started[r][j] <= k

\* C26 witness: the form of the first of two steps was not found.
C26_Witness ==
  \E r \in Runs :
    /\ Len(req[r].breakpoint) = 2
    /\ stepStatus[r][1] = "form_not_found"
    /\ started[r] = <<1>>
    /\ db[r].steps_log = <<[step |-> 1, status |-> "form_not_found"]>>

\* The rows of the step that have a preset, in the order of the query.
PresetRows == SelectSeq([j \in 1..Len(step_fields) |-> j],
                        LAMBDA j : step_fields[j].preset_value # "null")

\* C27: a fill that raised does not end the step: once the loop is over,
\* every row with a preset was tried, in the order of the query, whatever
\* raised before it; each raise is kept in the step's record under the row's
\* name; the loop is followed by the pause when the step has a human
\* breakpoint and else by the submit; and a step that is done had its submit
\* attempted.
C27_FieldFailureNotFatal ==
  /\ fillPc \in {"pause", "submit", "timeout", "done"} =>
       [j \in 1..Len(attempts) |-> attempts[j].row] = PresetRows
  /\ \A j \in 1..Len(attempts) :
       /\ step_fields[attempts[j].row].preset_value # "null"
       /\ \A k \in 1..Len(attempts) : j < k =>
            /\ attempts[j].row < attempts[k].row
            /\ step_fields[attempts[j].row].sort_order <= step_fields[attempts[k].row].sort_order
       /\ attempts[j].raised => ErrorKey(step_fields[attempts[j].row].field_name) \in step_info
  /\ fillPc = "pause" => fillBreak
  /\ (fillPc = "submit" /\ fillBreak) => "resumed" \in step_info
  /\ fillPc = "done" => ("submitted" \in step_info \/ "submit_error" \in step_info)

\* C27 witness: the fill of the first of three rows with a preset raised, the
\* other two were filled, and the step was paused, resumed and submitted.
C27_Witness ==
  /\ fillPc = "done"
  /\ fillBreak
  /\ Len(attempts) = 3
  /\ attempts[1].raised /\ ~attempts[2].raised /\ ~attempts[3].raised
  /\ ErrorKey(step_fields[1].field_name) \in step_info
  /\ "resumed" \in step_info
  /\ "submitted" \in step_info

\* C28: an editing session that holds a display session and is no longer the
\* registered one has had that display session stopped: it is not in the
\* pool.
C28_DisplayStoppedWithSession ==
  \A o \in EditObjs :
    (edit[o].vnc_session_id # NoSession /\ hreg # o) =>
       edit[o].vnc_session_id \notin DOMAIN sessions

\* C29: the row's vnc_session_id is set only while its status is
\* waiting_manual.
C29_SessionRefOnlyWhileWaiting ==
  \A r \in Runs :
    db[r].vnc_session_id # NoSession => db[r].status = "waiting_manual"

\* C30: when a cancellation is delivered to a run whose row already says
\* success or dry_run_ok, the row keeps that status and the stored result is
\* not the "Aborted by user" failure.
C30_CancelAfterCompletion ==
  [][\A r \in Runs :
       (db[r].status \in {"success", "dry_run_ok"} /\ cancelReq[r] /\ ~cancelReq'[r]) =>
          /\ db'[r].status = db[r].status
          /\ results'[r] # [status |-> "failed", error |-> "aborted"]]_vars

\* C31: a reserve_display call whose Xvfb is not up after the first wait
\* drops the session from the pool and restarts Xvfb once, on the display of
\* the first attempt; after the second wait the call ends: with the error
\* and no entry for its session in the pool when Xvfb is still down, else
\* with the session in the pool, status reserved, on the slot of the first
\* attempt.
C31_RetryOnceThenFatal ==
  [][\A c \in Callers :
       LET sid == callSid[c] IN
       /\ (callPc[c] = "reserve_wait" /\ callPc'[c] # "reserve_wait" /\ xvfb[sid].st # "alive") =>
            /\ callPc'[c] = "reserve_retry_sleep"
            /\ sid \notin DOMAIN sessions'
       /\ (callPc[c] = "reserve_retry_sleep" /\ callPc'[c] # "reserve_retry_sleep") =>
            /\ callPc'[c] = "reserve_retry_wait"
            /\ xvfb'[sid].slot = xvfb[sid].slot
            /\ sid \notin DOMAIN sessions'
       /\ (callPc[c] = "reserve_retry_wait" /\ callPc'[c] # "reserve_retry_wait") =>
            /\ callPc'[c] = "idle"
            /\ IF xvfb[sid].st = "alive"
               THEN /\ ret' = [op |-> "reserve_return", sid |-> sid, result |-> "reserved"]
                    /\ sid \in DOMAIN sessions'
                    /\ sessions'[sid].status = "reserved"
                    /\ sessions'[sid].slot = xvfb[sid].slot
                    /\ sid \in issued'
               ELSE /\ ret' = [op |-> "reserve_return", sid |-> sid, result |-> "xvfb_failed"]
                    /\ sid \notin DOMAIN sessions'
                    /\ sid \notin issued']_vars

\* C31 witness: the second start failed too, the call raised, and its
\* session is in no pool entry.
C31_Witness ==
  /\ ret.op = "reserve_return"
  /\ ret.result = "xvfb_failed"
  /\ ret.sid \notin DOMAIN sessions
  /\ xvfb[ret.sid].st = "dead"

\* The rows of S that are ready once the first n rows of o were emitted: not
\* emitted yet, and without a dependency or with it among the emitted rows.
ReadyAfter(S, o, n) ==
  LET emitted == {o[j] : j \in 1..n} IN
  {d \in S \ emitted :
     d.depends_on_step_order = NoDep \/ Parents(S, d) \subseteq emitted}

\* C32: for a valid acyclic dependency graph every row of the result of
\* _order_form_definitions is the one with the smallest (step_order, id)
\* among the rows that were ready when it was emitted; and with unique step
\* orders and no dependency at all the result is the ascending sort.
C32_LeastReadyFirst ==
  \A i \in 1..Len(orders) :
    /\ ValidGraph(form_defs) =>
         \A k \in 1..Len(orders[i]) :
           /\ orders[i][k] \in ReadyAfter(form_defs, orders[i], k - 1)
           /\ \A d \in ReadyAfter(form_defs, orders[i], k - 1) \ {orders[i][k]} :
                _step_sort_key(orders[i][k], d)
    /\ (~DuplicateStepOrder(form_defs)
        /\ \A d \in form_defs : d.depends_on_step_order = NoDep) =>
         /\ IsOrderOf(orders[i], form_defs)
         /\ \A j, k \in 1..Len(orders[i]) :
              j < k => orders[i][j].step_order < orders[i][k].step_order

\* C32 witness: two steps were ready at once after the first was emitted,
\* and the result differs from the ascending sort.
C32_Witness ==
  /\ ValidGraph(form_defs)
  /\ orders # << >>
  /\ Len(orders[1]) = 3
  /\ Cardinality(ReadyAfter(form_defs, orders[1], 1)) = 2
  /\ orders[1] # sorted(form_defs)

\* A login flow of session o is under way.
LoginRunning(o) == loginPc[o] \notin {"idle", "done"}

\* C33: the executing and navigating flags of a session are never both set;
\* a navigate request is let in only on a session with no navigation and no
\* login flow under way, and so is an execute_login request; so a session
\* never has a navigation and a login flow under way together.
C33_FlagsExclusive ==
  [][/\ \A o \in EditObjs :
          /\ ~(edit'[o].executing /\ edit'[o].navigating)
          /\ ~(navPc'[o].pc = "goto" /\ LoginRunning(o)')
     /\ (Arrives("navigate") /\ reply'.code = 0) =>
          (navPc[hreg].pc = "idle" /\ ~LoginRunning(hreg) /\ ~edit[hreg].executing)
     /\ (Arrives("execute_login") /\ reply'.code = 200) =>
          (navPc[hreg].pc = "idle" /\ ~LoginRunning(hreg) /\ ~edit[hreg].navigating)]_vars

\* C33 witness: an execute_login request was turned away while a navigation
\* of the session was under way.
C33_Witness ==
  /\ reply = [op |-> "execute_login", code |-> 409]
  /\ hreg # NoObj
  /\ edit[hreg].navigating
  /\ navPc[hreg].pc = "goto"

\* The positions of act in the trace of the submit phase.
TracePos(act) == {j \in 1..Len(subTrace) : subTrace[j].act = act}

\* The submit attempts, in the order of the fallback chain.
AttemptRank(act) ==
  CASE act = "click" -> 1 [] act = "click_force" -> 2
    [] act = "request_submit" -> 3 [] act = "enter" -> 4 [] OTHER -> 0

\* C34: in a submit phase with a submit control that ran to its end, the
\* attempts were made in the order click, forced click, scripted submit,
\* Enter; every attempt that went through was followed by an effect check; a
\* fallback was attempted only after no effect had been seen; and when no
\* attempt produced an effect every fallback was tried, Enter included.
C34_FallbackChain ==
  (subPc = "done" /\ effective_submit) =>
    /\ \A j, k \in 1..Len(subTrace) :
         (j < k /\ AttemptRank(subTrace[j].act) > 0 /\ AttemptRank(subTrace[k].act) > 0) =>
            AttemptRank(subTrace[j].act) < AttemptRank(subTrace[k].act)
    /\ \A j \in 1..Len(subTrace) :
         (subTrace[j].act \in {"click", "click_force", "enter"} /\ subTrace[j].result = "ok") =>
            (j < Len(subTrace) /\ subTrace[j + 1].act = "check")
    /\ \A j, k \in 1..Len(subTrace) :
         (j < k /\ subTrace[j].act = "check" /\ AttemptRank(subTrace[k].act) > 0) =>
            subTrace[j].result = "none"
    /\ ~navigation_detected =>
         (TracePos("request_submit") # {} /\ TracePos("enter") # {})


\* ------------------------------------------------------------------ C35
\* The indices of the terminal events (completed, failed) of run r.
TerminalEvents(r) == {k \in 1..Len(events[r]) : events[r][k].ev \in {"completed", "failed"}}

\* C35: a run that was not cancelled and whose background handling returned
\* has published started before every step event, and exactly one terminal
\* event, completed or failed, that agrees with the persisted status of the
\* row: completed carries the row's status, failed goes with a failed row.
C35_OneTerminalEvent ==
  \A r \in Runs :
    pc[r] = "done" =>
      /\ events[r] # << >>
      /\ events[r][1].ev = "started"
      /\ \A k \in 2..Len(events[r]) : events[r][k].ev # "started"
      /\ Cardinality(TerminalEvents(r)) = 1
      /\ \A k \in TerminalEvents(r) :
           /\ events[r][k].ev = "completed" =>
                /\ events[r][k].status \in {"success", "dry_run_ok"}
                /\ db[r].status = events[r][k].status
           /\ events[r][k].ev = "failed" => db[r].status = "failed"

\* ------------------------------------------------------------------ C36
\* The events of run r after position k, up to the next step_started or the
\* end of the run.
StepSpan(r, k) ==
  LET later == {m \in (k + 1)..Len(events[r]) : events[r][m].ev = "step_started"}
  IN (k + 1)..(IF later = {} THEN Len(events[r]) ELSE Min(later) - 1)

\* The step whose step_started is at position k aborted the run: the run
\* published failed before any other step started.
AbortedRun(r, k) == \E m \in StepSpan(r, k) : events[r][m].ev = "failed"

\* C36: once the next step has started or the run has ended, every step
\* that published step_started and did not abort the run has published
\* step_completed, carrying the step's final status, before that point;
\* the last step of a dry run too.
C36_StepCompletedPublished ==
  \A r \in Runs :
    \A k \in 1..Len(events[r]) :
      ( /\ events[r][k].ev = "step_started"
        /\ \/ pc[r] = "done"
           \/ \E m \in (k + 1)..Len(events[r]) : events[r][m].ev = "step_started"
        /\ ~AbortedRun(r, k) ) =>
        \E m \in StepSpan(r, k) :
          /\ events[r][m].ev = "step_completed"
          /\ events[r][m].step = events[r][k].step
          /\ events[r][m].status = stepStatus[r][events[r][k].step]


\* ------------------------------------------------------------------ C37
\* C37: when the setup task of an editing session ends, after its display
\* was reserved, without registering the session (it failed, or cancel_task
\* cancelled it), the display session is no longer in the pool and the
\* browser is not open.
C37_SetupExitCleansUp ==
  [][\A o \in EditObjs :
       ( /\ anaPc[o] \in {"setup", "activate_sleep"}
         /\ anaPc'[o] \in {"done", "cancelled"}
         /\ hreg' # o ) =>
         /\ anaSid[o] \notin DOMAIN sessions'
         /\ edit'[o].browser # "open"]_vars


\* ------------------------------------------------------------------ C38
\* Run r went on past the pause of step k: the step's submit was clicked, or
\* a later step was started.
WentPast(r, k) ==
  \/ \E j \in 1..Len(clicks[r]) : clicks[r][j] = k
  \/ \E j \in 1..Len(started[r]) : started[r][j] > k

\* C38: a run goes on past the pause of a human-breakpoint step (clicks its
\* submit, starts a later step) only if resume was called for the run's
\* display session; a stop of the session or a cleanup of the pool during
\* the pause does not let it go on.
C38_PastPauseOnlyAfterResume ==
  \A r \in Runs :
    \A k \in 1..Len(req[r].breakpoint) :
      (req[r].breakpoint[k] /\ WentPast(r, k)) => resumes[resSid[r]] > 0


\* ------------------------------------------------------------------ C39
\* The statuses of the persisted step log of run r.
LogStatuses(r) == {db[r].steps_log[k].status : k \in 1..Len(db[r].steps_log)}

\* C39, as stated: a run whose row ends success has a step log whose every
\* entry has status submitted.
C39_SuccessMeansAllSubmitted ==
  \A r \in Runs :
    (pc[r] = "done" /\ db[r].status = "success") => LogStatuses(r) \subseteq {"submitted"}

\* C39, amended: a run whose row ends success has a step log with one entry
\* for each step, in step order, each with status submitted or submit_error:
\* a submit click that failed is recorded in the step's entry and does not
\* keep the run from ending success.
C39_SuccessToleratesSubmitError ==
  \A r \in Runs :
    (pc[r] = "done" /\ db[r].status = "success") =>
      /\ Len(db[r].steps_log) = Len(req[r].breakpoint)
      /\ \A k \in 1..Len(db[r].steps_log) : db[r].steps_log[k].step = k
      /\ LogStatuses(r) \subseteq {"submitted", "submit_error"}

\* A run ended success with a submit_error entry in its log.
C39_Witness ==
  \E r \in Runs :
    /\ pc[r] = "done"
    /\ db[r].status = "success"
    /\ "submit_error" \in LogStatuses(r)


\* ------------------------------------------------------------------ C40
\* The setup tasks started for task id that have not ended.
Unfinished(id) == {t \in Handles : bgTask[t].id = id /\ bgTask[t].st \in {"running", "cancelling"}}

\* C40: while a setup task started for a task id has not ended, is_running
\* of the id is true and the registry holds a task of the id that has not
\* ended, so that cancel reaches it; and a cancel returns true exactly when
\* it cancelled a registered task that had not ended.
C40_RunningTaskStaysRegistered ==
  [][/\ \A id \in TaskIds :
          Unfinished(id)' # {} => (is_running(id)' /\ _tasks'[id] \in Unfinished(id)')
     /\ \A id \in TaskIds :
          (regRet'.op = "cancel" /\ regRet'.id = id /\ regRet' # regRet) =>
            (regRet'.result <=>
               /\ _tasks[id] # NoTask
               /\ ~done(_tasks[id])
               /\ bgTask'[_tasks[id]].st = "cancelling")]_vars

====
